---------------------------- MODULE Spec2Model ----------------------------
(***************************************************************************)
(* Verification model of the bt-rust disk path: the bounded vectored-IO    *)
(* view (iovecs/utils.rs), the piece assembler and the per-file positional *)
(* IO (disk/io), and the disk worker's command loop (disk/mod.rs).         *)
(*                                                                         *)
(* Byte buffers are sequences of small integers.  Indices are zero-based   *)
(* as in the source; At and From translate them to TLA+ sequences.         *)
(***************************************************************************)
EXTENDS Integers, Sequences, FiniteSets, TLC

(***************************************************************************)
(* Bounds of the model.                                                    *)
(***************************************************************************)
\* most buffers in a buffer list handed to IoVecs::bounded
MaxBufs == 3
\* longest single buffer in such a list
MaxBufLen == 3
\* largest byte count asked of one IoVecs::advance call
MaxAdvance == 4

Min(a, b) == IF a <= b THEN a ELSE b
Max(a, b) == IF a >= b THEN a ELSE b

\* bufs[i] with a zero-based index
At(s, i) == s[i + 1]
\* &s[k..]
From(s, k) == SubSeq(s, k + 1, Len(s))
\* &s[..k]
Upto(s, k) == SubSeq(s, 1, k)

RECURSIVE Flatten(_)
\* the bytes of a buffer list, in order (iter().flat_map(as_slice))
Flatten(bufs) ==
  IF bufs = <<>> THEN <<>> ELSE Head(bufs) \o Flatten(Tail(bufs))

RECURSIVE SumLen(_)
SumLen(bufs) == IF bufs = <<>> THEN 0 ELSE Len(Head(bufs)) + SumLen(Tail(bufs))

(***************************************************************************)
(* IoVecs (iovecs/utils.rs).  An IoVecs value is [bufs, split]; split is   *)
(* NoSplit or [some |-> TRUE, pos, second_half], where second_half is      *)
(* NoBuf (split on a buffer boundary) or [buf |-> the stashed bytes].      *)
(***************************************************************************)
NoSplit == [some |-> FALSE]
NoBuf == [has |-> FALSE]
Panic == [panic |-> TRUE]

IsPanic(v) == "panic" \in DOMAIN v

unbounded(bufs) == [bufs |-> bufs, split |-> NoSplit]

split_at_buffer_boundary(bufs, pos) ==
  [bufs |-> bufs, split |-> [some |-> TRUE, pos |-> pos, second_half |-> NoBuf]]

\* split_within_buffer without the shrinking of the buffer at the split position
split_within_buffer_untrimmed(bufs, split_pos, buf_split_pos) ==
  [bufs |-> bufs,
   split |-> [some |-> TRUE, pos |-> split_pos,
              second_half |-> [has |-> TRUE,
                               buf |-> From(At(bufs, split_pos), buf_split_pos)]]]

split_within_buffer(bufs, split_pos, buf_split_pos) ==
  LET buf_to_split == At(bufs, split_pos)
      first_half == Upto(buf_to_split, buf_split_pos)
      second_half == From(buf_to_split, buf_split_pos)
  IN [bufs |-> [bufs EXCEPT ![split_pos + 1] = first_half],
      split |-> [some |-> TRUE, pos |-> split_pos,
                 second_half |-> [has |-> TRUE, buf |-> second_half]]]

RECURSIVE Position(_, _, _, _)
\* bufs.iter().position(|buf| { bufs_len += len; bufs_len >= max_len }) together
\* with the value the closure leaves in bufs_len; pos = -1 stands for None
Position(bufs, i, bufs_len, max_len) ==
  IF i >= Len(bufs) THEN [pos |-> -1, bufs_len |-> bufs_len]
  ELSE LET acc == bufs_len + Len(At(bufs, i))
       IN IF acc >= max_len THEN [pos |-> i, bufs_len |-> acc]
          ELSE Position(bufs, i + 1, acc, max_len)

\* the list is not clipped to max_len
bounded_unclipped(bufs, max_len) == unbounded(bufs)

bounded(bufs, max_len) ==
  IF ~(max_len > 0) THEN Panic
  ELSE LET p == Position(bufs, 0, 0, max_len)
           bufs_split_pos == p.pos
           bufs_len == p.bufs_len
       IN IF bufs_split_pos = -1 THEN unbounded(bufs)
          ELSE IF bufs_len = max_len
               THEN IF bufs_split_pos + 1 = Len(bufs)
                    THEN unbounded(bufs)
                    ELSE split_at_buffer_boundary(bufs, bufs_split_pos)
               ELSE LET buf_to_split == At(bufs, bufs_split_pos)
                        buf_offset == bufs_len - Len(buf_to_split)
                        buf_split_pos == max_len - buf_offset
                    IN split_within_buffer(bufs, bufs_split_pos, buf_split_pos)

as_slice(iov) ==
  IF iov.split.some
  THEN IF iov.split.pos = 0 /\ iov.bufs # <<>> /\ At(iov.bufs, 0) = <<>>
       THEN <<>>
       ELSE Upto(iov.bufs, iov.split.pos + 1)
  ELSE iov.bufs

as_u8_vec(iov) == Flatten(as_slice(iov))

RECURSIVE CountWhole(_, _, _, _)
\* the first loop of advance: the whole buffers that n covers
CountWhole(slice, n, bufs_to_remove_count, total_remove_len) ==
  IF bufs_to_remove_count >= Len(slice)
  THEN [count |-> bufs_to_remove_count, total |-> total_remove_len]
  ELSE LET buf_len == Len(At(slice, bufs_to_remove_count))
       IN IF total_remove_len + buf_len > n
          THEN [count |-> bufs_to_remove_count, total |-> total_remove_len]
          ELSE CountWhole(slice, n, bufs_to_remove_count + 1,
                          total_remove_len + buf_len)

\* advance that leaves the last advanced byte in the first remaining buffer
advance_one_short(iov, n) ==
  LET slice == as_slice(iov)
      c == CountWhole(slice, n, 0, 0)
      atSplit == iov.split.some /\ c.count = iov.split.pos + 1
  IN IF atSplit /\ n > c.total THEN Panic
     ELSE
       LET last_len == IF slice = <<>> THEN 0 ELSE Len(slice[Len(slice)])
           bufs_to_remove_count == IF atSplit THEN c.count - 1 ELSE c.count
           total_remove_len == IF atSplit THEN c.total - last_len ELSE c.total
           bufs == From(iov.bufs, bufs_to_remove_count)
           split == IF iov.split.some
                    THEN [iov.split EXCEPT !.pos =
                            IF bufs_to_remove_count >= iov.split.pos THEN 0
                            ELSE iov.split.pos - bufs_to_remove_count]
                    ELSE iov.split
           m == n - total_remove_len
       IN IF bufs # <<>> /\ m > 0
          THEN IF ~(Len(At(bufs, 0)) >= m) THEN Panic
               ELSE [bufs |-> [bufs EXCEPT ![1] = From(At(bufs, 0), m - 1)],
                     split |-> split]
          ELSE [bufs |-> bufs, split |-> split]

advance(iov, n) ==
  LET slice == as_slice(iov)
      c == CountWhole(slice, n, 0, 0)
      atSplit == iov.split.some /\ c.count = iov.split.pos + 1
  IN IF atSplit /\ n > c.total THEN Panic
     ELSE
       LET last_len == IF slice = <<>> THEN 0 ELSE Len(slice[Len(slice)])
           bufs_to_remove_count == IF atSplit THEN c.count - 1 ELSE c.count
           total_remove_len == IF atSplit THEN c.total - last_len ELSE c.total
           bufs == From(iov.bufs, bufs_to_remove_count)
           split == IF iov.split.some
                    THEN [iov.split EXCEPT !.pos =
                            IF bufs_to_remove_count >= iov.split.pos THEN 0
                            ELSE iov.split.pos - bufs_to_remove_count]
                    ELSE iov.split
           m == n - total_remove_len
       IN IF bufs # <<>> /\ m > 0
          THEN IF ~(Len(At(bufs, 0)) >= m) THEN Panic
               ELSE [bufs |-> [bufs EXCEPT ![1] = From(At(bufs, 0), m)],
                     split |-> split]
          ELSE [bufs |-> bufs, split |-> split]

into_tail(iov) ==
  IF iov.split.some
  THEN IF iov.split.second_half.has
       THEN From([iov.bufs EXCEPT ![iov.split.pos + 1] = iov.split.second_half.buf],
                 iov.split.pos)
       ELSE From(iov.bufs, iov.split.pos + 1)
  ELSE From(iov.bufs, Len(iov.bufs))


(***************************************************************************)
(* Blocks and storage (blockinfo.rs, define.rs, storage_info.rs).          *)
(***************************************************************************)
\* BLOCK_LEN is 0x4000 in the source; the model scales it down, keeping it larger
\* than one byte so that a block can straddle two files.  The code uses it only
\* in divisions, products and comparisons.
BLOCK_LEN == 2
\* a SHA-1 digest is 20 bytes long
SHA1_LEN == 20

\* BLOCK_LEN as the source defines it (0x4000)
BLOCK_LEN_SRC == 16384

\* counts one block per BLOCK_LEN bytes and none for the remainder
block_count_floor(piece_len, blk) == piece_len \div blk

\* block_count for a block length of blk.  piece_len is a u32 widened to usize
\* before the addition, so the sum never wraps on a 64-bit target.
block_count_of(piece_len, blk) == (piece_len + (blk - 1)) \div blk

block_count(piece_len) == block_count_of(piece_len, BLOCK_LEN)

\* assert!(piece_len > block_offset) in block_len
block_len_panics(piece_len, block_index) == ~(piece_len > block_index * BLOCK_LEN)

block_len(piece_len, block_index) ==
  Min(piece_len - block_index * BLOCK_LEN, BLOCK_LEN)

\* BlockInfo::index_in_piece
index_in_piece(block_info) == block_info.offset \div BLOCK_LEN

RECURSIVE Offsets(_, _)
\* FileInfo.torrent_offset of every file: the prefix sums of the lengths
Offsets(lens, start) ==
  IF lens = <<>> THEN <<>>
  ELSE <<[len |-> Head(lens), torrent_offset |-> start]>>
       \o Offsets(Tail(lens), start + Head(lens))

RECURSIVE Sum(_)
Sum(lens) == IF lens = <<>> THEN 0 ELSE Head(lens) + Sum(Tail(lens))

\* the StorageInfo of a torrent whose files have the lengths lens
StorageInfo(lens, piece_len) ==
  LET download_len == Sum(lens)
      piece_count == (download_len + piece_len - 1) \div piece_len
  IN [piece_count |-> piece_count,
      piece_len |-> piece_len,
      last_piece_len |-> download_len - (piece_count - 1) * piece_len,
      download_len |-> download_len,
      files |-> Offsets(lens, 0)]

\* the length of piece index: last_piece_len for the last piece
piece_len_of(info, index) ==
  IF index = info.piece_count - 1 THEN info.last_piece_len ELSE info.piece_len

\* the absolute offset of the first byte of piece index
torrent_piece_offset(info, index) == index * info.piece_len

\* the file indices whose byte range intersects the piece's: the Range start..end
files_intersecting_piece(info, index) ==
  LET lo == torrent_piece_offset(info, index)
      hi == lo + piece_len_of(info, index)
      hit == {i \in 0..(Len(info.files) - 1) :
                /\ At(info.files, i).torrent_offset < hi
                /\ At(info.files, i).torrent_offset + At(info.files, i).len > lo}
  IN IF hit = {} THEN [start |-> 0, end |-> 0]
     ELSE [start |-> CHOOSE i \in hit : \A j \in hit : i <= j,
           end |-> (CHOOSE i \in hit : \A j \in hit : i >= j) + 1]

\* FileInfo::get_slice: [torrent_offset, torrent_offset + len) clipped to the file
get_slice(file_info, torrent_offset, len) ==
  LET torrent_end_offset == file_info.torrent_offset + file_info.len
  IN IF torrent_offset < file_info.torrent_offset \/ torrent_offset >= torrent_end_offset
     THEN Panic
     ELSE [offset |-> torrent_offset - file_info.torrent_offset,
           len |-> Min(len, torrent_end_offset - torrent_offset)]

(***************************************************************************)
(* Piece content and hashes.  The torrent's true byte at absolute offset a *)
(* is a + 1; a corrupted block carries other bytes.  Sha1 is a digest of   *)
(* SHA1_LEN bytes computed from the bytes in order.                        *)
(***************************************************************************)
TrueByte(a) == a + 1
Corrupt(b) == b + 16

RECURSIVE Roll(_, _)
Roll(bytes, h) ==
  IF bytes = <<>> THEN h ELSE Roll(Tail(bytes), (h * 31 + Head(bytes) + 1) % 65521)

\* Sha1::digest: an order-sensitive digest of SHA1_LEN bytes
Sha1(bytes) ==
  LET h == Roll(bytes, 7)
  IN [i \in 1..SHA1_LEN |-> (h \div (2 ^ (i - 1))) % 2]

PieceBytes(info, index) ==
  [i \in 1..piece_len_of(info, index) |->
     TrueByte(torrent_piece_offset(info, index) + i - 1)]

RECURSIVE PieceHashes(_, _)
\* the concatenation of the expected digests of the pieces index, index+1, ...
PieceHashes(info, index) ==
  IF index >= info.piece_count THEN <<>>
  ELSE Sha1(PieceBytes(info, index)) \o PieceHashes(info, index + 1)

(***************************************************************************)
(* Files.  A file on disk is [exists, data]; the OS calls are seek_write   *)
(* and seek_read.  A positional write returns the number of bytes it       *)
(* transferred, which may be fewer than given, or fails.                   *)
(***************************************************************************)
NoFile == [exists |-> FALSE, data |-> <<>>]

Zeros(n) == [i \in 1..n |-> 0]

\* the file data after buf is stored at offset; a gap before offset reads as zeros
Stored(data, offset, buf) ==
  IF buf = <<>> THEN data
  ELSE LET size == Max(Len(data), offset + Len(buf))
       IN [i \in 1..size |->
             IF i > offset /\ i <= offset + Len(buf) THEN buf[i - offset]
             ELSE IF i <= Len(data) THEN data[i] ELSE 0]

\* handle.seek_write(buf, offset) with the outcome the OS produces:
\* "ok" transfers every byte, "short" all but the last one, "err" fails
seek_write(file, buf, offset, outcome) ==
  IF outcome = "err" THEN [ret |-> -1, file |-> file]
  ELSE LET k == IF outcome = "short" THEN Max(Len(buf) - 1, 0) ELSE Len(buf)
       IN [ret |-> k, file |-> [file EXCEPT !.data = Stored(file.data, offset, Upto(buf, k))]]

\* handle.seek_read(&mut data, offset) into a zeroed buffer of len bytes
seek_read(file, len, offset) ==
  LET n == Max(0, Min(len, Len(file.data) - offset))
  IN [ret |-> n,
      data |-> [i \in 1..len |-> IF i <= n THEN file.data[offset + i] ELSE 0]]

\* TorrentFile::write
TorrentFile_write(file, file_index, file_slice, blocks, outcome) ==
  LET written(iovecs, buf, w) ==
        [err |-> w.ret = -1, tail |-> into_tail(iovecs), file |-> w.file,
         log |-> <<[call |-> "seek_write", file |-> file_index,
                    offset |-> file_slice.offset, buf |-> buf,
                    slice_len |-> file_slice.len, ret |-> w.ret]>>]
      submit(iovecs, buf) ==
        written(iovecs, buf, seek_write(file, buf, file_slice.offset, outcome))
      with(iovecs) ==
        IF IsPanic(iovecs) THEN Panic ELSE submit(iovecs, as_u8_vec(iovecs))
  IN with(bounded(blocks, file_slice.len))

RECURSIVE Chunks(_)
\* the fold of TorrentFile::read: a new block every BLOCK_LEN bytes
Chunks(data) ==
  IF data = <<>> THEN <<>>
  ELSE <<Upto(data, Min(BLOCK_LEN, Len(data)))>>
       \o Chunks(From(data, Min(BLOCK_LEN, Len(data))))

\* TorrentFile::read
TorrentFile_read(file, file_index, file_slice) ==
  LET done(r) ==
        [err |-> IF r.ret = 0 THEN "MissingData" ELSE "none",
         blocks |-> IF r.ret = 0 THEN <<>> ELSE Chunks(r.data),
         log |-> <<[call |-> "seek_read", file |-> file_index,
                    offset |-> file_slice.offset, buf |-> r.data,
                    slice_len |-> file_slice.len, ret |-> r.ret]>>]
  IN done(seek_read(file, file_slice.len, file_slice.offset))

(***************************************************************************)
(* The piece assembler (disk/io/piece.rs).  A Piece is [expected_hash,     *)
(* len, blocks, file_range]; blocks maps an offset to the block's bytes.   *)
(***************************************************************************)
\* map insertion and removal (BTreeMap / HashMap)
Put(f, k, v) == [x \in (DOMAIN f) \cup {k} |-> IF x = k THEN v ELSE f[x]]
Remove(f, k) == [x \in (DOMAIN f) \ {k} |-> f[x]]

RECURSIVE Values(_)
\* BTreeMap::values: the blocks in ascending offset order
Values(blocks) ==
  IF DOMAIN blocks = {} THEN <<>>
  ELSE LET k == CHOOSE x \in DOMAIN blocks : \A y \in DOMAIN blocks : x <= y
       IN <<blocks[k]>> \o Values(Remove(blocks, k))

\* or_insert without the Occupied test: the later block replaces the earlier one
enqueue_block_overwriting(piece, offset, data) ==
  [piece EXCEPT !.blocks = Put(piece.blocks, offset, data)]

\* a buffer that only grows at its end: a block below a buffered offset is dropped
enqueue_block_appending(piece, offset, data) ==
  IF \E o \in DOMAIN piece.blocks : o >= offset THEN piece
  ELSE [piece EXCEPT !.blocks = Put(piece.blocks, offset, data)]

enqueue_block(piece, offset, data) ==
  IF offset \in DOMAIN piece.blocks THEN piece
  ELSE [piece EXCEPT !.blocks = Put(piece.blocks, offset, data)]

\* complete with the first block
is_complete_early(piece) == Cardinality(DOMAIN piece.blocks) >= 1

is_complete(piece) == Cardinality(DOMAIN piece.blocks) = block_count(piece.len)

match_hash(piece) == Sha1(Flatten(Values(piece.blocks))) = piece.expected_hash

\* the outcome of the write call number callno, given the one faulty call io
OutcomeOf(io, callno) == IF io.at = callno THEN io.kind ELSE "ok"

RECURSIVE WriteLoop(_, _, _, _, _, _, _, _, _, _)
\* the loop of Piece::write over the files i, i+1, ..., end-1
WriteLoop(len, infos, files, i, end, bufs, torrent_write_offset, total_write_count, io, log) ==
  LET stop(status, calls) ==
        [status |-> status, files |-> files, log |-> log \o calls, bufs |-> bufs]
      next(file_slice, w) ==
        IF IsPanic(w) THEN stop("panic", <<>>)
        ELSE IF w.err THEN stop("err", w.log)
        ELSE WriteLoop(len, infos, [files EXCEPT ![i + 1] = w.file], i + 1, end,
                       w.tail, torrent_write_offset + file_slice.len,
                       total_write_count + file_slice.len, io, log \o w.log)
      write(file_slice) ==
        IF IsPanic(file_slice) THEN stop("panic", <<>>)
        ELSE next(file_slice, TorrentFile_write(At(files, i), i, file_slice, bufs,
                                                OutcomeOf(io, Len(log))))
  IN IF i >= end THEN stop("ok", <<>>)
     ELSE write(get_slice(At(infos, i), torrent_write_offset, len - total_write_count))

\* Piece::write
Piece_write(piece, piece_offset, infos, files, io) ==
  WriteLoop(piece.len, infos, files, piece.file_range.start, piece.file_range.end,
            Values(piece.blocks), piece_offset, 0, io, <<>>)

RECURSIVE ReadLoop(_, _, _, _, _, _, _, _, _)
\* the loop of read over the files i, i+1, ..., end-1; bytes are the buffers
\* filled so far
ReadLoop(len, infos, files, i, end, bytes, torrent_read_offset, total_read_count, log) ==
  LET stop(err, calls) == [err |-> err, bytes |-> bytes, log |-> log \o calls]
      next(file_slice, r) ==
        IF r.err # "none" THEN stop(r.err, r.log)
        ELSE ReadLoop(len, infos, files, i + 1, end, bytes \o Flatten(r.blocks),
                      torrent_read_offset + file_slice.len,
                      total_read_count + file_slice.len, log \o r.log)
      fill(file_slice) ==
        IF IsPanic(file_slice) THEN stop("panic", <<>>)
        ELSE next(file_slice, TorrentFile_read(At(files, i), i, file_slice))
  IN IF i >= end THEN stop("none", <<>>)
     ELSE fill(get_slice(At(infos, i), torrent_read_offset, len - total_read_count))

\* read: the blocks of a piece, block i holding block_len(len, i) bytes
read(piece_offset, file_range, infos, files, len) ==
  LET blocks(l) ==
        [err |-> l.err, log |-> l.log,
         blocks |-> IF l.err # "none" THEN <<>>
                    ELSE [i \in 1..block_count(len) |->
                            SubSeq(l.bytes, (i - 1) * BLOCK_LEN + 1,
                                   (i - 1) * BLOCK_LEN + block_len(len, i - 1))]]
  IN blocks(ReadLoop(len, infos, files, file_range.start, file_range.end,
                     <<>>, piece_offset, 0, <<>>))

(***************************************************************************)
(* The torrent's disk state (disk/io/torrent.rs): [info, write_buf,        *)
(* piece_hashes]; its files are the files of the torrent on disk.          *)
(***************************************************************************)
\* TorrentFile::new: OpenOptions create + read + write; ok is the outcome of open
TorrentFile_new(file, file_index, ok) ==
  [ok |-> ok,
   file |-> IF ok THEN [file EXCEPT !.exists = TRUE] ELSE file,
   log |-> <<[call |-> "open", file |-> file_index, offset |-> 0, buf |-> <<>>,
              slice_len |-> 0, ret |-> IF ok THEN 0 ELSE -1]>>]

\* Torrent::new opens file after file and stops at the first failure: the first
\* `opened` opens succeed
Torrent_new(info, piece_hashes, files, opened) ==
  LET tried == Min(opened + 1, Len(info.files))
      o == [i \in 1..tried |-> TorrentFile_new(files[i], i - 1, i <= opened)]
  IN [ok |-> opened >= Len(info.files),
      files |-> [i \in 1..Len(files) |-> IF i <= tried THEN o[i].file ELSE files[i]],
      log |-> [i \in 1..tried |-> o[i].log[1]],
      torrent |-> [info |-> info, write_buf |-> <<>>, piece_hashes |-> piece_hashes]]

\* step 1 of write_block: the block lies inside a piece of the torrent
ValidBlock(info, b) ==
  /\ b.piece_index < info.piece_count
  /\ b.offset + b.len <= piece_len_of(info, b.piece_index)
  /\ b.len <= BLOCK_LEN

\* the assembler of a piece that has no block yet
NewPiece(t, index) ==
  [expected_hash |-> SubSeq(t.piece_hashes, SHA1_LEN * index + 1,
                            SHA1_LEN * index + SHA1_LEN),
   len |-> piece_len_of(t.info, index),
   blocks |-> <<>>,
   file_range |-> files_intersecting_piece(t.info, index)]

PieceCompletion(id, index, is_valid) ==
  [chan |-> "torrent", to |-> id, type |-> "PieceCompletion", ok |-> TRUE, index |-> index,
   is_valid |-> is_valid, error |-> "none"]

PieceCompletionErr(id) ==
  [chan |-> "torrent", to |-> id, type |-> "PieceCompletion", ok |-> FALSE, index |-> -1,
   is_valid |-> FALSE, error |-> "WriteError::Io"]

\* write_block that keeps the assembler of a completed piece in write_buf
Torrent_write_block_keeping(id, t, files, b, data, io) ==
  LET index == b.piece_index
      done(torrent, w, sent) ==
        [status |-> IF w.status = "panic" THEN "panic" ELSE "ok",
         torrent |-> torrent, files |-> w.files, sent |-> sent, log |-> w.log]
      skipped == [status |-> "ok", files |-> files, log |-> <<>>]
      written(torrent, w) ==
        done(torrent, w,
             IF w.status = "ok" THEN <<PieceCompletion(id, index, TRUE)>>
             ELSE IF w.status = "err" THEN <<PieceCompletionErr(id)>>
             ELSE <<>>)
      complete(piece, torrent) ==
        IF ~match_hash(piece)
        THEN done(torrent, skipped, <<PieceCompletion(id, index, FALSE)>>)
        ELSE written(torrent, Piece_write(piece, torrent_piece_offset(t.info, index),
                                          t.info.files, files, io))
      enqueued(piece) ==
        IF ~is_complete(piece)
        THEN done([t EXCEPT !.write_buf = Put(t.write_buf, index, piece)], skipped, <<>>)
        ELSE complete(piece, [t EXCEPT !.write_buf = Put(t.write_buf, index, piece)])
  IN IF ~ValidBlock(t.info, b) THEN done(t, skipped, <<>>)
     ELSE enqueued(enqueue_block(IF index \in DOMAIN t.write_buf
                                 THEN t.write_buf[index]
                                 ELSE NewPiece(t, index), b.offset, data))

\* Torrent::write_block; id names the torrent's reply channel
Torrent_write_block(id, t, files, b, data, io) ==
  LET index == b.piece_index
      done(torrent, w, sent) ==
        [status |-> IF w.status = "panic" THEN "panic" ELSE "ok",
         torrent |-> torrent, files |-> w.files, sent |-> sent, log |-> w.log]
      skipped == [status |-> "ok", files |-> files, log |-> <<>>]
      written(torrent, w) ==
        done(torrent, w,
             IF w.status = "ok" THEN <<PieceCompletion(id, index, TRUE)>>
             ELSE IF w.status = "err" THEN <<PieceCompletionErr(id)>>
             ELSE <<>>)
      complete(piece, torrent) ==
        IF ~match_hash(piece)
        THEN done(torrent, skipped, <<PieceCompletion(id, index, FALSE)>>)
        ELSE written(torrent, Piece_write(piece, torrent_piece_offset(t.info, index),
                                          t.info.files, files, io))
      enqueued(piece) ==
        IF ~is_complete(piece)
        THEN done([t EXCEPT !.write_buf = Put(t.write_buf, index, piece)], skipped, <<>>)
        ELSE complete(piece, [t EXCEPT !.write_buf = Remove(t.write_buf, index)])
  IN IF ~ValidBlock(t.info, b) THEN done(t, skipped, <<>>)
     ELSE enqueued(enqueue_block(IF index \in DOMAIN t.write_buf
                                 THEN t.write_buf[index]
                                 ELSE NewPiece(t, index), b.offset, data))

\* Torrent::read_block: the block goes to the requester, an error to the torrent
Torrent_read_block(id, t, files, b) ==
  LET index == b.piece_index
      failed(e) == <<[chan |-> "torrent", to |-> id, type |-> "ReadError",
                      block_info |-> b, error |-> e]>>
      block(data) == <<[chan |-> "peer", type |-> "Block", piece_index |-> b.piece_index,
                        offset |-> b.offset, data |-> data]>>
      done(r) ==
        [status |-> IF r.err = "panic" THEN "panic" ELSE "ok",
         log |-> r.log,
         sent |-> IF r.err = "panic" THEN <<>>
                  ELSE IF r.err # "none" THEN failed(r.err)
                  ELSE IF index_in_piece(b) >= Len(r.blocks)
                  THEN failed("InvalidBlockOffset")
                  ELSE block(At(r.blocks, index_in_piece(b)))]
  IN done(read(torrent_piece_offset(t.info, index),
               files_intersecting_piece(t.info, index), t.info.files, files,
               piece_len_of(t.info, index)))

(***************************************************************************)
(* The disk worker (disk/mod.rs): the arms of the command loop of          *)
(* Disk::start.  Each returns the worker's state after the command, the    *)
(* messages it sent and the OS calls it made.                              *)
(***************************************************************************)
contains_key(map, k) == k \in DOMAIN map

TorrentAllocation(id, result) ==
  [chan |-> "engine", type |-> "TorrentAllocation", id |-> id, result |-> result]

\* the arm without its contains_key check
start_NewTorrent_again(ts, disk, id, info, piece_hashes, opened) ==
  LET done(r) ==
        [state |-> "running",
         torrents |-> IF r.ok THEN Put(ts, id, r.torrent) ELSE ts,
         fs |-> [disk EXCEPT ![id] = r.files],
         log |-> r.log,
         sent |-> <<TorrentAllocation(id, IF r.ok THEN "Ok" ELSE "Io")>>]
  IN done(Torrent_new(info, piece_hashes, disk[id], opened))

\* the arm returning the error of Torrent::new with `?`
start_NewTorrent_fatal(ts, disk, id, info, piece_hashes, opened) ==
  LET done(r) ==
        [state |-> IF r.ok THEN "running" ELSE "Io",
         torrents |-> IF r.ok THEN Put(ts, id, r.torrent) ELSE ts,
         fs |-> [disk EXCEPT ![id] = r.files],
         log |-> r.log,
         sent |-> IF r.ok THEN <<TorrentAllocation(id, "Ok")>> ELSE <<>>]
  IN IF contains_key(ts, id)
     THEN [state |-> "running", torrents |-> ts, fs |-> disk, log |-> <<>>,
           sent |-> <<TorrentAllocation(id, "AlreadyExists")>>]
     ELSE done(Torrent_new(info, piece_hashes, disk[id], opened))

\* the arm building the torrent anew for an id it has already
start_NewTorrent_replacing(ts, disk, id, info, piece_hashes, opened) ==
  LET done(r) ==
        [state |-> "running",
         torrents |-> IF r.ok THEN Put(ts, id, r.torrent) ELSE ts,
         fs |-> [disk EXCEPT ![id] = r.files],
         log |-> r.log,
         sent |-> <<TorrentAllocation(id, IF contains_key(ts, id) THEN "AlreadyExists"
                                          ELSE IF r.ok THEN "Ok" ELSE "Io")>>]
  IN done(Torrent_new(info, piece_hashes, disk[id], opened))

\* the NewTorrent arm
start_NewTorrent(ts, disk, id, info, piece_hashes, opened) ==
  LET done(r) ==
        [state |-> "running",
         torrents |-> IF r.ok THEN Put(ts, id, r.torrent) ELSE ts,
         fs |-> [disk EXCEPT ![id] = r.files],
         log |-> r.log,
         sent |-> <<TorrentAllocation(id, IF r.ok THEN "Ok" ELSE "Io")>>]
  IN IF contains_key(ts, id)
     THEN [state |-> "running", torrents |-> ts, fs |-> disk, log |-> <<>>,
           sent |-> <<TorrentAllocation(id, "AlreadyExists")>>]
     ELSE done(Torrent_new(info, piece_hashes, disk[id], opened))

\* Disk::write_block returning the write error of the piece to its `?`
Disk_write_block_fatal(ts, disk, id, block_info, data, io) ==
  LET failed(r) == \E i \in 1..Len(r.sent) : r.sent[i].type = "PieceCompletion" /\ ~r.sent[i].ok
      done(r) ==
        [state |-> IF r.status = "panic" THEN "panicked"
                   ELSE IF failed(r) THEN "Io" ELSE "running",
         torrents |-> [ts EXCEPT ![id] = r.torrent],
         fs |-> [disk EXCEPT ![id] = r.files],
         log |-> r.log,
         sent |-> IF failed(r) THEN <<>> ELSE r.sent]
  IN IF ~contains_key(ts, id)
     THEN [state |-> "InvalidTorrentId", torrents |-> ts, fs |-> disk, log |-> <<>>,
           sent |-> <<>>]
     ELSE done(Torrent_write_block(id, ts[id], disk[id], block_info, data, io))

\* Disk::write_block and the `?` of its arm
Disk_write_block(ts, disk, id, block_info, data, io) ==
  LET done(r) ==
        [state |-> IF r.status = "panic" THEN "panicked" ELSE "running",
         torrents |-> [ts EXCEPT ![id] = r.torrent],
         fs |-> [disk EXCEPT ![id] = r.files],
         log |-> r.log,
         sent |-> r.sent]
  IN IF ~contains_key(ts, id)
     THEN [state |-> "InvalidTorrentId", torrents |-> ts, fs |-> disk, log |-> <<>>,
           sent |-> <<>>]
     ELSE done(Torrent_write_block(id, ts[id], disk[id], block_info, data, io))

\* Disk::read_block and the `?` of its arm
Disk_read_block(ts, disk, id, block_info) ==
  LET done(r) ==
        [state |-> IF r.status = "panic" THEN "panicked" ELSE "running",
         torrents |-> ts, fs |-> disk, log |-> r.log, sent |-> r.sent]
  IN IF ~contains_key(ts, id)
     THEN [state |-> "InvalidTorrentId", torrents |-> ts, fs |-> disk, log |-> <<>>,
           sent |-> <<>>]
     ELSE done(Torrent_read_block(id, ts[id], disk[id], block_info))

(***************************************************************************)
(* State.  The first group is one IoVecs value under test with the calls   *)
(* made on it, the second group is the disk worker with the torrents, the  *)
(* files on disk and what the worker did for the last command it handled.  *)
(* Messages of earlier commands are not kept: `sent` and `io_log` hold the *)
(* messages and OS calls of the last command only.  Every channel's        *)
(* receiver is alive, so no send fails.                                    *)
(***************************************************************************)
VARIABLES
  meta,         \* id -> StorageInfo of the torrent's metainfo
  torrents,     \* Disk.torrents: registered id -> Torrent
  fs,           \* id -> the torrent's files on disk, in declaration order
  disk_state,   \* "running", "shutdown", "InvalidTorrentId" or "panicked"
  cmd,          \* the last command the worker handled
  sent,         \* the messages the worker sent while handling cmd
  io_log,       \* the OS calls the worker made while handling cmd
  valid_pieces, \* <<id, index>> of every PieceCompletion{is_valid: true} sent
  faults_left,  \* how many more OS calls may fail or fall short
  iov_bufs,   \* the buffer list B given to IoVecs::bounded
  iov_max,    \* the max_len given to IoVecs::bounded
  iov,        \* the IoVecs value (Null before construction)
  iov_pc,     \* "new", "live", "panicked" or "tail" (consumed by into_tail)
  iov_call,   \* the last call made: [op, n, first]; first = first-half bytes before it
  iov_adv,    \* bytes advanced so far by the calls that returned
  iov_tail,   \* what into_tail returned
  chan,       \* the worker's command channel: [enq, handled, result]
  pt,         \* a Piece under test: [len, calls, piece, order]
  lk,         \* the file handles' RwLocks and the threads using them
  bc,         \* a block_count call: [piece_len, count]
  bl,         \* a block_len call: [piece_len, block_index, overflow_checks, result]
  avg,        \* a SlidingAvg and the samples fed to it
  wire,       \* a codec's read buffer and what was decoded from it
  mi,         \* a metainfo's info dictionary and what from_bytes made of it
  ids,        \* the TorrentId counter and the threads minting ids
  co,         \* a torrent coordinator: its commands, its picker and what it announced
  eq,         \* one buffer list under both IoVecs implementations
  eng         \* the engine: its torrents, the channels it sends on, its tasks

ioVars == <<iov_bufs, iov_max, iov, iov_pc, iov_call, iov_adv, iov_tail>>

diskVars == <<meta, torrents, fs, disk_state, cmd, sent, io_log, valid_pieces,
              faults_left>>

auxVars == <<chan, pt, lk, bc>>

unitVars == <<bl, avg, wire, mi, ids>>

sysVars == <<co, eq, eng>>

vars == <<ioVars, diskVars, auxVars, unitVars, sysVars>>

Null == [null |-> TRUE]
NoCall == [op |-> "none", n |-> 0, first |-> 0]

RECURSIVE Fill(_, _)
\* buffers of the given lengths holding the bytes start, start+1, ...: every byte
\* of the list is different, so a lost, repeated or misplaced byte shows
Fill(lens, start) ==
  IF lens = <<>> THEN <<>>
  ELSE <<[i \in 1..Head(lens) |-> start + i - 1]>> \o Fill(Tail(lens), start + Head(lens))

LenLists == UNION {[1..k -> 0..MaxBufLen] : k \in 0..MaxBufs}

BufLists == {Fill(lens, 1) : lens \in LenLists}

IoInit ==
  /\ iov_bufs \in BufLists
  /\ iov_max \in 0..(SumLen(iov_bufs) + 1)
  /\ iov = Null
  /\ iov_pc = "new"
  /\ iov_call = NoCall
  /\ iov_adv = 0
  /\ iov_tail = <<>>

IoIdle ==
  /\ iov_bufs = <<>>
  /\ iov_max = 0
  /\ iov = Null
  /\ iov_pc = "idle"
  /\ iov_call = NoCall
  /\ iov_adv = 0
  /\ iov_tail = <<>>

(***************************************************************************)
(* The torrents the engine creates.  Files are never empty: the metainfo   *)
(* is rejected otherwise; a piece is at least one block long.              *)
(***************************************************************************)
MaxTorrents == 2
MaxFiles == 3
MaxFileLen == 3
MaxDownloadLen == 4
MaxFaults == 1
MaxPieceLen == BLOCK_LEN + 1

TorrentIds == 1..MaxTorrents

FileLens ==
  {lens \in UNION {[1..k -> 1..MaxFileLen] : k \in 1..MaxFiles} :
     Sum(lens) <= MaxDownloadLen}

Layouts == {StorageInfo(lens, piece_len) :
              lens \in FileLens, piece_len \in BLOCK_LEN..MaxPieceLen}

\* a torrent of one file and one piece of one byte
SmallLayout == StorageInfo(<<1>>, BLOCK_LEN)

\* a torrent of one piece of two blocks over two files
WorkerLayout == StorageInfo(<<1, 2>>, BLOCK_LEN + 1)

\* a torrent of two pieces of two blocks over three files, with a block and a
\* piece that straddle file boundaries
PiecesLayout == StorageInfo(<<1, 3, 2>>, BLOCK_LEN + 1)

NoBlockInfo == [piece_index |-> 0, offset |-> 0, len |-> 0]
NoCmd == [type |-> "none", id |-> 0, block_info |-> NoBlockInfo, data |-> <<>>]

\* the block_info of the blocks peers deliver: the blocks of every piece, for
\* the first piece also every other block that lies inside it, aligned to
\* BLOCK_LEN or not, and three blocks that lie in no piece: a piece index past
\* the last piece, a block longer than BLOCK_LEN, a block past the piece's end
BlockInfos(info) ==
  {b \in {[piece_index |-> p, offset |-> o, len |-> l] :
            p \in 0..(info.piece_count - 1), o \in 0..(info.piece_len - 1),
            l \in 1..BLOCK_LEN} :
     /\ ValidBlock(info, b)
     /\ b.piece_index > 0 =>
          /\ b.offset % BLOCK_LEN = 0
          /\ b.len = block_len(piece_len_of(info, b.piece_index), index_in_piece(b))}
  \cup {[piece_index |-> info.piece_count, offset |-> 0, len |-> 1],
        [piece_index |-> 0, offset |-> 0, len |-> BLOCK_LEN + 1],
        [piece_index |-> info.piece_count - 1, offset |-> info.last_piece_len - 1,
         len |-> BLOCK_LEN]}

\* the commands that name a torrent the engine never created carry this block
\* the block_info of the blocks peers ask for: the blocks of every piece, and
\* one block boundary past the end of the longest piece
ReadInfos(info) ==
  {[piece_index |-> p, offset |-> k * BLOCK_LEN,
    len |-> IF block_len_panics(piece_len_of(info, p), k) THEN BLOCK_LEN
            ELSE block_len(piece_len_of(info, p), k)] :
     p \in 0..(info.piece_count - 1), k \in 0..block_count(info.piece_len)}

StrayBlockInfo == [piece_index |-> 0, offset |-> 0, len |-> 1]

\* the bytes of a block as downloaded: the torrent's bytes, or other bytes
BlockData(info, b, good) ==
  [i \in 1..b.len |->
     LET byte == TrueByte(torrent_piece_offset(info, b.piece_index) + b.offset + i - 1)
     IN IF good THEN byte ELSE Corrupt(byte)]

\* the one write call of a command that the OS fails or cuts short, if any,
\* among the calls the command makes
NoFault == [kind |-> "ok", at |-> 0]
Faults(calls) ==
  {NoFault} \cup {[kind |-> k, at |-> c] : k \in {"short", "err"}, c \in 0..(calls - 1)}

DiskIdle ==
  /\ meta = <<>>
  /\ torrents = <<>>
  /\ fs = <<>>
  /\ disk_state = "not started"
  /\ cmd = NoCmd
  /\ sent = <<>>
  /\ io_log = <<>>
  /\ valid_pieces = {}
  /\ faults_left = 0

\* Disk::new and the spawn of Disk::start: no torrent yet, no file on disk
DiskInit ==
  /\ torrents = <<>>
  /\ fs = [id \in DOMAIN meta |-> [i \in 1..Len(meta[id].files) |-> NoFile]]
  /\ disk_state = "running"
  /\ cmd = NoCmd
  /\ sent = <<>>
  /\ io_log = <<>>
  /\ valid_pieces = {}
  /\ faults_left = MaxFaults

\* the command channel before the engine creates it
ChanIdle == chan = <<>>

\* no piece under test
PtIdle == pt = <<>>

\* no file handle shared between threads
LkIdle == lk = <<>>

\* no block_count call
BcIdle == bc = <<>>

AuxIdle == ChanIdle /\ PtIdle /\ LkIdle /\ BcIdle

\* no block_len call
BlIdle == bl = <<>>

\* no SlidingAvg
AvgIdle == avg = <<>>

\* no codec
WireIdle == wire = <<>>

\* no metainfo
MiIdle == mi = <<>>

\* no TorrentId minted
IdsIdle == ids = <<>>

UnitIdle == BlIdle /\ AvgIdle /\ WireIdle /\ MiIdle /\ IdsIdle

\* no coordinator, no second IoVecs, no engine
CoIdle == co = <<>>

EqIdle == eq = <<>>

EngIdle == eng = <<>>

SysIdle == CoIdle /\ EqIdle /\ EngIdle

\* let iovecs = IoVecs::bounded(&mut bufs, max_len)
Bounded ==
  /\ iov_pc = "new"
  /\ LET r == bounded(iov_bufs, iov_max)
     IN /\ iov' = IF IsPanic(r) THEN Null ELSE r
        /\ iov_pc' = IF IsPanic(r) THEN "panicked" ELSE "live"
  /\ iov_call' = [op |-> "bounded", n |-> iov_max, first |-> 0]
  /\ UNCHANGED <<iov_bufs, iov_max, iov_adv, iov_tail, diskVars, auxVars, unitVars, sysVars>>

\* iovecs.advance(n); no further call is explored once the calls that returned
\* have advanced past every byte of the list
Advance ==
  /\ iov_pc = "live"
  /\ iov_adv <= SumLen(iov_bufs)
  /\ \E n \in 0..MaxAdvance :
       LET r == advance(iov, n)
       IN /\ iov' = IF IsPanic(r) THEN iov ELSE r
          /\ iov_pc' = IF IsPanic(r) THEN "panicked" ELSE "live"
          /\ iov_adv' = IF IsPanic(r) THEN iov_adv ELSE iov_adv + n
          /\ iov_call' = [op |-> "advance", n |-> n, first |-> Len(as_u8_vec(iov))]
  /\ UNCHANGED <<iov_bufs, iov_max, iov_tail, diskVars, auxVars, unitVars, sysVars>>

\* let tail = iovecs.into_tail()
IntoTail ==
  /\ iov_pc = "live"
  /\ iov_tail' = into_tail(iov)
  /\ iov_pc' = "tail"
  /\ iov_call' = [op |-> "into_tail", n |-> 0, first |-> Len(as_u8_vec(iov))]
  /\ UNCHANGED <<iov_bufs, iov_max, iov, iov_adv, diskVars, auxVars, unitVars, sysVars>>

IoNext == Bounded \/ Advance \/ IntoTail

InitIoVecs == IoInit /\ SysIdle /\ UnitIdle /\ DiskIdle /\ AuxIdle

SpecIoVecs == InitIoVecs /\ [][IoNext]_vars

(***************************************************************************)
(* The commands the worker takes off its channel, one per step.            *)
(***************************************************************************)
\* the index of every PieceCompletion{is_valid: true} among the messages
ValidCompletions(msgs) ==
  {<<msgs[i].to, msgs[i].index>> : i \in {j \in 1..Len(msgs) :
      msgs[j].type = "PieceCompletion" /\ msgs[j].ok /\ msgs[j].is_valid}}

\* Command::NewTorrent{id, storage_info, piece_hashes, torrent_tx}
NewTorrent ==
  /\ disk_state = "running"
  /\ \E id \in DOMAIN meta :
     \E opened \in (IF faults_left > 0 THEN 0 ELSE Len(meta[id].files))
                     ..Len(meta[id].files) :
       \E r \in {start_NewTorrent(torrents, fs, id, meta[id],
                                   PieceHashes(meta[id], 0), opened)} :
          /\ disk_state' = r.state
          /\ torrents' = r.torrents
          /\ fs' = r.fs
          /\ sent' = r.sent
          /\ io_log' = r.log
          /\ faults_left' = faults_left - Cardinality({c \in 1..Len(r.log) : r.log[c].ret < 0})
          /\ cmd' = [NoCmd EXCEPT !.type = "NewTorrent", !.id = id]
  /\ UNCHANGED <<meta, valid_pieces, ioVars, auxVars, unitVars, sysVars>>

\* Command::WriteBlock{id, block_info, data}
WriteBlock ==
  /\ disk_state = "running"
  /\ \E id \in TorrentIds :
     \E b \in IF id \in DOMAIN meta THEN BlockInfos(meta[id]) ELSE {StrayBlockInfo} :
     \E good \in BOOLEAN :
     \E data \in {IF id \in DOMAIN meta THEN BlockData(meta[id], b, good)
                  ELSE Zeros(b.len)} :
     \E io \in Faults(IF faults_left > 0
                      THEN Len(Disk_write_block(torrents, fs, id, b, data, NoFault).log)
                      ELSE 0) :
       \E r \in {Disk_write_block(torrents, fs, id, b, data, io)} :
          /\ disk_state' = r.state
          /\ torrents' = r.torrents
          /\ fs' = r.fs
          /\ sent' = r.sent
          /\ io_log' = r.log
          /\ valid_pieces' = valid_pieces \cup ValidCompletions(r.sent)
          /\ faults_left' = IF io = NoFault THEN faults_left ELSE faults_left - 1
          /\ cmd' = [type |-> "WriteBlock", id |-> id, block_info |-> b, data |-> data]
  /\ UNCHANGED <<meta, ioVars, auxVars, unitVars, sysVars>>

\* Command::ReadBlock{id, block_info, result_tx}
ReadBlock ==
  /\ disk_state = "running"
  /\ \E id \in TorrentIds :
     \E b \in IF id \in DOMAIN meta THEN ReadInfos(meta[id]) ELSE {StrayBlockInfo} :
       \E r \in {Disk_read_block(torrents, fs, id, b)} :
          /\ disk_state' = r.state
          /\ sent' = r.sent
          /\ io_log' = r.log
          /\ cmd' = [NoCmd EXCEPT !.type = "ReadBlock", !.id = id, !.block_info = b]
  /\ UNCHANGED <<meta, torrents, fs, valid_pieces, faults_left, ioVars, auxVars, unitVars, sysVars>>

\* Command::Shutdown
Shutdown ==
  /\ disk_state = "running"
  /\ disk_state' = "shutdown"
  /\ cmd' = [NoCmd EXCEPT !.type = "Shutdown"]
  /\ sent' = <<>>
  /\ io_log' = <<>>
  /\ UNCHANGED <<meta, torrents, fs, valid_pieces, faults_left, ioVars, auxVars, unitVars, sysVars>>

\* the worker of an engine that created every torrent id
Init ==
  /\ IoIdle /\ SysIdle /\ UnitIdle
  /\ AuxIdle
  /\ meta = [id \in TorrentIds |-> IF id = 1 THEN WorkerLayout ELSE SmallLayout]
  /\ DiskInit

\* the worker of an engine that created one torrent of two pieces of two blocks
InitPieces == IoIdle /\ SysIdle /\ UnitIdle /\ AuxIdle /\ meta = [id \in {1} |-> PiecesLayout] /\ DiskInit

\* the worker of an engine that created one torrent, of any layout
InitLayouts == IoIdle /\ SysIdle /\ UnitIdle /\ AuxIdle /\ meta \in [{1} -> Layouts] /\ DiskInit

Next == NewTorrent \/ WriteBlock \/ ReadBlock \/ Shutdown

Spec == Init /\ [][Next]_vars

SpecPieces == InitPieces /\ [][Next]_vars

SpecLayouts == InitLayouts /\ [][Next]_vars

(***************************************************************************)
(* Properties of IoVecs, checked under SpecIoVecs.                         *)
(***************************************************************************)
\* the bytes of B and the byte count of the first half of the split
AllBytes == Flatten(iov_bufs)
FirstLen == Min(SumLen(iov_bufs), iov_max)

\* C2: for every buffer list B and max_len > 0, bounded(B, max_len) is built without
\* panic, the bytes of as_slice() followed by the bytes of into_tail() are concat(B),
\* and as_slice() holds min(sum of |B|, max_len) bytes.
BoundedRoundTrip ==
  /\ (iov_call.op = "bounded" /\ iov_max > 0) => iov_pc = "live"
  /\ (iov_call.op = "bounded" /\ iov_pc = "live") =>
       /\ as_u8_vec(iov) \o Flatten(into_tail(iov)) = AllBytes
       /\ Len(as_u8_vec(iov)) = FirstLen

\* a three-buffer list split inside its middle buffer
BoundedRoundTripWitness ==
  /\ iov_call.op = "bounded" /\ iov_pc = "live"
  /\ Len(iov_bufs) = 3
  /\ iov.split.some /\ iov.split.pos = 1 /\ iov.split.second_half.has
  /\ Len(Flatten(into_tail(iov))) > Len(iov.split.second_half.buf)

\* C3: after advance calls whose sum does not exceed the first-half byte count,
\* as_slice() holds the original first-half bytes without the first sum(n_i) of
\* them and into_tail() returns the bytes after the first half, as without any
\* advance; such an advance does not panic.
AdvanceKeepsTail ==
  /\ (iov_pc = "live" /\ iov_adv <= FirstLen) =>
       /\ as_u8_vec(iov) = From(Upto(AllBytes, FirstLen), iov_adv)
       /\ Flatten(into_tail(iov)) = From(AllBytes, FirstLen)
  /\ (iov_pc = "tail" /\ iov_adv <= FirstLen) =>
       Flatten(iov_tail) = From(AllBytes, FirstLen)
  /\ (iov_pc = "panicked" /\ iov_call.op = "advance") => iov_call.n > iov_call.first

\* the whole first half of a split on a buffer boundary was advanced over, the
\* last call stopping on the boundary, and the tail was then taken
AdvanceKeepsTailWitness ==
  /\ iov_pc = "tail"
  /\ iov.split.some /\ ~iov.split.second_half.has
  /\ iov_adv = FirstLen /\ FirstLen >= 2
  /\ iov_tail # <<>>

\* C4: advance(n) panics whenever n is larger than the number of bytes in the
\* first half at the time of the call, split or not.
AdvancePastFirstHalfPanics ==
  (iov_call.op = "advance" /\ iov_call.n > iov_call.first) => iov_pc = "panicked"

(***************************************************************************)
(* Properties of the disk worker.                                          *)
(***************************************************************************)
\* the PieceCompletion messages among msgs
Completions(msgs) ==
  LET IsCompletion(m) == m.type = "PieceCompletion" IN SelectSeq(msgs, IsCompletion)

\* the seek_write calls among the OS calls
Writes(log) == LET IsWrite(c) == c.call = "seek_write" IN SelectSeq(log, IsWrite)

\* the byte on disk at absolute torrent offset a; -1 where no byte is stored
OnDisk(info, files, a) ==
  LET i == CHOOSE j \in 1..Len(info.files) :
             /\ info.files[j].torrent_offset <= a
             /\ a < info.files[j].torrent_offset + info.files[j].len
      k == a - info.files[i].torrent_offset + 1
  IN IF files[i].exists /\ k <= Len(files[i].data) THEN files[i].data[k] ELSE -1

\* the bytes on disk in the byte range of piece index
PieceOnDisk(info, files, index) ==
  [j \in 1..piece_len_of(info, index) |->
     OnDisk(info, files, torrent_piece_offset(info, index) + j - 1)]

\* the assembler of the piece of block b once b is enqueued in torrent t
Assembled(t, b, data) ==
  enqueue_block(IF b.piece_index \in DOMAIN t.write_buf
                THEN t.write_buf[b.piece_index]
                ELSE NewPiece(t, b.piece_index), b.offset, data)

\* the block b of torrent t brings the distinct offsets buffered for its piece
\* to the piece's block count
ReachesBlockCount(t, b, data) ==
  /\ ValidBlock(t.info, b)
  /\ Cardinality(DOMAIN Assembled(t, b, data).blocks)
       = block_count(piece_len_of(t.info, b.piece_index))

\* C1: no positional write of a piece submits more than file_slice.len bytes and
\* none reaches the file's declared length or beyond; no file on disk is longer
\* than declared.
WriteWithinFileSlice ==
  /\ \A c \in 1..Len(io_log) :
       io_log[c].call = "seek_write" =>
         /\ Len(io_log[c].buf) <= io_log[c].slice_len
         /\ io_log[c].offset + Len(io_log[c].buf)
              <= At(meta[cmd.id].files, io_log[c].file).len
  /\ \A id \in DOMAIN fs : \A i \in 1..Len(fs[id]) :
       Len(fs[id][i].data) <= meta[id].files[i].len

\* a piece of three bytes was written to three files, its first block of two
\* bytes lying across the boundary of the first two, and the last file is
\* longer than its slice
WriteWithinFileSliceWitness ==
  /\ cmd.type = "WriteBlock"
  /\ Len(Writes(io_log)) = 3
  /\ \A c \in 1..3 : io_log[c].ret = 1 /\ Len(io_log[c].buf) = 1
  /\ meta[cmd.id].files[3].len > 1
  /\ cmd.block_info = [piece_index |-> 0, offset |-> BLOCK_LEN, len |-> 1]
  /\ sent = <<PieceCompletion(cmd.id, 0, TRUE)>>

\* C5 as stated: a WriteBlock for a registered torrent sends one PieceCompletion
\* carrying the piece's index when its block brings the distinct offsets of the
\* piece to the block count, and nothing otherwise.
CompletionCarriesIndex ==
  [][(cmd'.type = "WriteBlock" /\ cmd'.id \in DOMAIN torrents) =>
       LET b == cmd'.block_info
           msgs == Completions(sent')
       IN IF ReachesBlockCount(torrents[cmd'.id], b, cmd'.data)
          THEN /\ Len(sent') = 1 /\ Len(msgs) = 1
               /\ msgs[1].to = cmd'.id
               /\ msgs[1].index = b.piece_index
          ELSE sent' = <<>>]_vars

\* C5 amended: a WriteBlock for a registered torrent sends exactly one
\* PieceCompletion to the torrent's channel when its block brings the distinct
\* offsets buffered for the piece to block_count of the piece's length, and no
\* message otherwise; the message carries the piece's index when it is
\* Ok(PieceCompletion{index, is_valid}), and is Err(WriteError), which has no
\* index, when a write of the piece failed.
CompletionWhenBlockCountReached ==
  [][(cmd'.type = "WriteBlock" /\ cmd'.id \in DOMAIN torrents) =>
       LET b == cmd'.block_info
           msgs == Completions(sent')
       IN IF ReachesBlockCount(torrents[cmd'.id], b, cmd'.data)
          THEN /\ Len(sent') = 1 /\ Len(msgs) = 1
               /\ msgs[1].to = cmd'.id
               /\ msgs[1].ok => msgs[1].index = b.piece_index
               /\ ~msgs[1].ok =>
                    \E c \in 1..Len(io_log') : io_log'[c].ret < 0
          ELSE sent' = <<>>]_vars

\* the second piece was completed while a block of the first was buffered
CompletionWhenBlockCountReachedWitness ==
  /\ cmd.type = "WriteBlock" /\ cmd.block_info.piece_index = 1
  /\ cmd.block_info.offset = 0
  /\ cmd.id \in DOMAIN torrents
  /\ sent = <<PieceCompletion(cmd.id, 1, TRUE)>>
  /\ DOMAIN torrents[cmd.id].write_buf = {0}

\* C6: a completed piece is written only if its hash matches; a mismatch is
\* reported as is_valid: false and changes no file; is_valid: true is reported
\* only with the piece's bytes on disk.
ValidOnlyAfterWritten ==
  [][(cmd'.type = "WriteBlock" /\ cmd'.id \in DOMAIN torrents) =>
       LET t == torrents[cmd'.id]
           b == cmd'.block_info
           piece == Assembled(t, b, cmd'.data)
           bytes == Flatten(Values(piece.blocks))
           matches == Sha1(bytes) = piece.expected_hash
           msgs == Completions(sent')
       IN /\ (fs' # fs \/ io_log' # <<>>) => matches
          /\ (ReachesBlockCount(t, b, cmd'.data) /\ ~matches) =>
               /\ sent' = <<PieceCompletion(cmd'.id, b.piece_index, FALSE)>>
               /\ fs' = fs /\ io_log' = <<>>
          /\ \A i \in 1..Len(msgs) :
               (msgs[i].ok /\ msgs[i].is_valid) =>
                 PieceOnDisk(t.info, fs'[cmd'.id], b.piece_index) = bytes]_vars

\* C7: a ReadBlock for a block of a piece reported as valid delivers a Block
\* with the request's piece_index, offset and length and the bytes written.
ReadReturnsWrittenBlock ==
  [][(/\ cmd'.type = "ReadBlock"
      /\ <<cmd'.id, cmd'.block_info.piece_index>> \in valid_pieces
      /\ cmd'.block_info.offset
           < piece_len_of(meta[cmd'.id], cmd'.block_info.piece_index)) =>
       LET b == cmd'.block_info
       IN sent' = <<[chan |-> "peer", type |-> "Block",
                     piece_index |-> b.piece_index, offset |-> b.offset,
                     data |-> SubSeq(PieceBytes(meta[cmd'.id], b.piece_index),
                                     b.offset + 1, b.offset + b.len)]>>]_vars

\* C8: a NewTorrent for an unregistered id whose files open is answered Ok and
\* registers the torrent; a NewTorrent for a registered id is answered
\* AlreadyExists, leaves the torrents and the files as they were and the worker
\* running.
SecondNewTorrentAlreadyExists ==
  [][cmd'.type = "NewTorrent" =>
       IF cmd'.id \in DOMAIN torrents
       THEN /\ sent' = <<TorrentAllocation(cmd'.id, "AlreadyExists")>>
            /\ torrents' = torrents /\ fs' = fs /\ io_log' = <<>>
            /\ disk_state' = "running"
       ELSE (\A c \in 1..Len(io_log') : io_log'[c].ret >= 0) =>
              /\ sent' = <<TorrentAllocation(cmd'.id, "Ok")>>
              /\ cmd'.id \in DOMAIN torrents'
              /\ disk_state' = "running"]_vars

\* the second NewTorrent of a torrent that has a block buffered, next to
\* another registered torrent
SecondNewTorrentAlreadyExistsWitness ==
  /\ cmd.type = "NewTorrent"
  /\ sent = <<TorrentAllocation(cmd.id, "AlreadyExists")>>
  /\ DOMAIN torrents = TorrentIds
  /\ torrents[cmd.id].write_buf # <<>>
  /\ disk_state = "running"

\* C9: when an open fails during NewTorrent the engine is sent
\* TorrentAllocation{Err(Io)}, the id is not registered, the other torrents
\* stay as they were and the worker keeps running.
OpenFailureReported ==
  [][(/\ cmd'.type = "NewTorrent"
      /\ \E c \in 1..Len(io_log') : io_log'[c].call = "open" /\ io_log'[c].ret < 0) =>
       /\ sent' = <<TorrentAllocation(cmd'.id, "Io")>>
       /\ cmd'.id \notin DOMAIN torrents'
       /\ torrents' = torrents
       /\ disk_state' = "running"]_vars

\* the open of the second file of a torrent failed while another torrent,
\* with data on disk, is registered
OpenFailureReportedWitness ==
  /\ cmd.type = "NewTorrent"
  /\ sent = <<TorrentAllocation(cmd.id, "Io")>>
  /\ Len(io_log) = 2 /\ io_log[1].ret = 0 /\ io_log[2].ret < 0
  /\ fs[cmd.id][1].exists /\ ~fs[cmd.id][2].exists
  /\ cmd.id \notin DOMAIN torrents
  /\ \E id \in DOMAIN torrents : fs[id][1].data # <<>>
  /\ disk_state = "running"

\* C10: a WriteBlock or ReadBlock that names an id not registered leaves the
\* worker running.
UnknownIdKeepsWorkerRunning ==
  [][(cmd'.type \in {"WriteBlock", "ReadBlock"} /\ cmd'.id \notin DOMAIN torrents) =>
       disk_state' = "running"]_vars

(***************************************************************************)
(* block_count over a range of piece lengths, checked under SpecBlocks.    *)
(***************************************************************************)
\* the largest number of whole blocks in a piece length tried
MaxBlocks == 24
\* how far from a multiple of BLOCK_LEN the piece lengths tried lie
MaxSlack == 2

\* piece lengths at and around every multiple of the source's BLOCK_LEN
PieceLens ==
  {n \in {k * BLOCK_LEN_SRC + d : k \in 0..MaxBlocks, d \in (0 - MaxSlack)..MaxSlack} : n >= 1}

NotCounted == 0 - 1

BcInit == bc \in {[piece_len |-> n, count |-> NotCounted] : n \in PieceLens}

InitBlocks == IoIdle /\ SysIdle /\ UnitIdle /\ DiskIdle /\ ChanIdle /\ PtIdle /\ LkIdle /\ BcInit

\* let count = block_count(piece_len)
BlockCount ==
  /\ bc.count = NotCounted
  /\ bc' = [bc EXCEPT !.count = block_count_of(bc.piece_len, BLOCK_LEN_SRC)]
  /\ UNCHANGED <<ioVars, diskVars, chan, pt, lk, unitVars, sysVars>>

NextBlocks == BlockCount

SpecBlocks == InitBlocks /\ [][NextBlocks]_vars

\* C20: for every piece_len >= 1, block_count(piece_len) is the ceiling of
\* piece_len / BLOCK_LEN: the least count of BLOCK_LEN-byte blocks that covers
\* piece_len bytes (BLOCK_LEN = 16384).
BlockCountIsCeiling ==
  bc.count # NotCounted =>
    /\ bc.count * BLOCK_LEN_SRC >= bc.piece_len
    /\ (bc.count - 1) * BLOCK_LEN_SRC < bc.piece_len

\* block_count was applied to a piece length that is not a multiple of BLOCK_LEN
\* and to one that is more than one block long
BlockCountIsCeilingWitness ==
  /\ bc.count # NotCounted
  /\ bc.piece_len % BLOCK_LEN_SRC # 0
  /\ bc.piece_len > BLOCK_LEN_SRC

(***************************************************************************)
(* Write errors, checked under Spec.                                       *)
(***************************************************************************)
\* the positional writes of the log that the OS failed
FailedWrites(log) == {c \in 1..Len(log) : log[c].call = "seek_write" /\ log[c].ret < 0}

\* C12: when a WriteBlock completes a piece whose hash matches and a file write
\* of the piece fails with an IO error, the worker sends
\* PieceCompletion(Err(WriteError)) to the torrent's channel, buffers the piece
\* no longer, and keeps running, so that the commands that follow are processed.
WriteErrorReported ==
  [][(cmd'.type = "WriteBlock" /\ FailedWrites(io_log') # {}) =>
       /\ sent' = <<PieceCompletionErr(cmd'.id)>>
       /\ disk_state' = "running"
       /\ cmd'.block_info.piece_index \notin DOMAIN torrents'[cmd'.id].write_buf
       /\ valid_pieces' = valid_pieces]_vars

\* the write to the piece's second file failed after the write to its first file
\* was made, and the worker is running
WriteErrorReportedWitness ==
  /\ cmd.type = "WriteBlock"
  /\ Len(io_log) = 2
  /\ FailedWrites(io_log) = {2}
  /\ sent = <<PieceCompletionErr(cmd.id)>>
  /\ disk_state = "running"

(***************************************************************************)
(* Short transfers of the positional calls, checked under Spec.            *)
(***************************************************************************)
\* the bytes of file data in [offset, offset + len); -1 where none is stored
FileBytes(data, offset, len) ==
  [i \in 1..len |-> IF offset + i <= Len(data) THEN data[offset + i] ELSE 0 - 1]

\* the positional reads of the log that filled less than the file slice
ShortReads(log) ==
  {c \in 1..Len(log) : log[c].call = "seek_read" /\ log[c].ret < log[c].slice_len}

\* C16: TorrentFile::read fails with MissingData whenever fewer than
\* file_slice.len bytes can be read at file_slice.offset, a partial read
\* included, so a ReadBlock whose read fell short delivers no block.
ShortReadIsMissingData ==
  [][(cmd'.type = "ReadBlock" /\ ShortReads(io_log') # {}) =>
       /\ Len(sent') = 1
       /\ sent'[1].type = "ReadError"
       /\ sent'[1].error = "MissingData"]_vars

\* C17: when TorrentFile::write returns Ok, every byte it submitted, the first
\* min(total, file_slice.len) bytes of the blocks, is stored in the file from
\* file_slice.offset on, also when one positional write transfers fewer bytes.
WriteStoresAllBytes ==
  [][cmd'.type = "WriteBlock" =>
       \A c \in 1..Len(io_log') :
         (io_log'[c].call = "seek_write" /\ io_log'[c].ret >= 0) =>
           FileBytes(fs'[cmd'.id][io_log'[c].file + 1].data, io_log'[c].offset,
                     Len(io_log'[c].buf)) = io_log'[c].buf]_vars

(***************************************************************************)
(* Reads of pieces that were never written, checked under SpecLayouts.     *)
(***************************************************************************)
\* C18: a ReadBlock for a block of a piece that the worker never reported as
\* written delivers no Block: the torrent gets ReadError MissingData for it,
\* whatever other pieces of the same files have been written.
UnwrittenPieceIsMissingData ==
  [][(/\ cmd'.type = "ReadBlock"
      /\ cmd'.id \in DOMAIN torrents
      /\ <<cmd'.id, cmd'.block_info.piece_index>> \notin valid_pieces
      /\ cmd'.block_info.offset
           < piece_len_of(meta[cmd'.id], cmd'.block_info.piece_index)) =>
       sent' = <<[chan |-> "torrent", to |-> cmd'.id, type |-> "ReadError",
                  block_info |-> cmd'.block_info, error |-> "MissingData"]>>]_vars

(***************************************************************************)
(* One piece assembler and the enqueue_block calls made on it, checked     *)
(* under SpecPiece.  pt is [calls, piece, order]: the blocks to enqueue,   *)
(* the Piece, and the indices of the calls made so far, in call order.     *)
(***************************************************************************)
\* the number of enqueue_block calls, which is the piece's block count
MaxCalls == 3

\* the piece's length: MaxCalls blocks, the last one a byte short
PtLen == MaxCalls * BLOCK_LEN - 1

PtBytes == [i \in 1..PtLen |-> TrueByte(i - 1)]

\* the block boundaries of the piece, and one offset that is no boundary
PtOffsets == {k * BLOCK_LEN : k \in 0..(MaxCalls - 1)} \cup {1}

\* the data a call carries for an offset: the piece's bytes (kind 0), other
\* bytes (kind 1), or the piece's bytes less the last one (kind 2)
PtData(offset, kind) ==
  LET n == Min(BLOCK_LEN, PtLen - offset)
      good == [i \in 1..n |-> PtBytes[offset + i]]
  IN IF kind = 0 THEN good
     ELSE IF kind = 1 THEN [i \in 1..n |-> Corrupt(good[i])]
     ELSE Upto(good, n - 1)

PtCall(offset, kind) == [offset |-> offset, kind |-> kind, data |-> PtData(offset, kind)]

PtCalls == {PtCall(o, k) : o \in PtOffsets, k \in 0..2}

\* Piece{expected_hash, len, blocks: BTreeMap::new(), file_range}
PtNew == [expected_hash |-> Sha1(PtBytes), len |-> PtLen, blocks |-> <<>>,
          file_range |-> [start |-> 0, end |-> 1]]

\* the calls are listed by offset and kind: the order they are made in is
\* chosen by Enqueue
PtInit ==
  /\ pt \in {[calls |-> c, piece |-> PtNew, order |-> <<>>] :
               c \in {x \in [1..MaxCalls -> PtCalls] :
                        \A i \in 1..(MaxCalls - 1) :
                          3 * x[i].offset + x[i].kind <= 3 * x[i + 1].offset + x[i + 1].kind}}

InitPiece == IoIdle /\ SysIdle /\ UnitIdle /\ DiskIdle /\ ChanIdle /\ LkIdle /\ BcIdle /\ PtInit

Range(s) == {s[i] : i \in 1..Len(s)}

\* piece.enqueue_block(offset, data) for one of the calls not made yet
Enqueue ==
  /\ \E i \in (1..Len(pt.calls)) \ Range(pt.order) :
       pt' = [pt EXCEPT !.piece = enqueue_block(pt.piece, pt.calls[i].offset, pt.calls[i].data),
                        !.order = Append(pt.order, i)]
  /\ UNCHANGED <<ioVars, diskVars, chan, lk, bc, unitVars, sysVars>>

NextPiece == Enqueue

SpecPiece == InitPiece /\ [][NextPiece]_vars

\* the call made last
LastCall(p) == p.calls[p.order[Len(p.order)]]

\* C13: enqueue_block never overwrites: a block enqueued at an offset that is
\* buffered already leaves the assembler's content as it was, whatever bytes
\* the block carries, and a block at a new offset changes no buffered block.
EnqueueNeverOverwrites ==
  [][Len(pt'.order) > Len(pt.order) =>
       /\ LastCall(pt').offset \in DOMAIN pt.piece.blocks => pt'.piece = pt.piece
       /\ \A o \in DOMAIN pt.piece.blocks :
            o \in DOMAIN pt'.piece.blocks /\ pt'.piece.blocks[o] = pt.piece.blocks[o]]_vars

\* two calls were made for one offset, the second with other bytes, and the
\* bytes of the first are buffered
EnqueueNeverOverwritesWitness ==
  /\ pt # <<>>
  /\ \E i, j \in 1..Len(pt.order) :
       /\ i < j
       /\ pt.calls[pt.order[i]].offset = pt.calls[pt.order[j]].offset
       /\ pt.calls[pt.order[i]].data # pt.calls[pt.order[j]].data
       /\ pt.piece.blocks[pt.calls[pt.order[i]].offset] = pt.calls[pt.order[i]].data

RECURSIVE Ascending(_)
\* the elements of a set of numbers in ascending order
Ascending(S) ==
  IF S = {} THEN <<>>
  ELSE LET m == CHOOSE x \in S : \A y \in S : x <= y IN <<m>> \o Ascending(S \ {m})

RECURSIVE EnqueueSeq(_, _, _)
\* the piece after the calls named by order are made on it, first to last
EnqueueSeq(piece, calls, order) ==
  IF order = <<>> THEN piece
  ELSE EnqueueSeq(enqueue_block(piece, calls[Head(order)].offset, calls[Head(order)].data),
                  calls, Tail(order))

DistinctOffsets(calls) ==
  \A i, j \in 1..Len(calls) : i # j => calls[i].offset # calls[j].offset

\* C14: for blocks with pairwise distinct offsets the order of the
\* enqueue_block calls does not matter: whatever order the calls were made in,
\* the assembler's content, is_complete() and match_hash() are those that the
\* same calls give when made in ascending index order.
EnqueueOrderIndependent ==
  (pt # <<>> /\ DistinctOffsets(pt.calls)) =>
    LET same(c) ==
          /\ pt.piece.blocks = c.blocks
          /\ is_complete(pt.piece) = is_complete(c)
          /\ is_complete(c) => match_hash(pt.piece) = match_hash(c)
    IN same(EnqueueSeq(PtNew, pt.calls, Ascending(Range(pt.order))))

\* every block of the piece was enqueued, the last block first, and the piece
\* is complete with the expected hash
EnqueueOrderIndependentWitness ==
  /\ pt # <<>>
  /\ DistinctOffsets(pt.calls)
  /\ Len(pt.order) = MaxCalls
  /\ \E i \in 1..(MaxCalls - 1) : pt.calls[pt.order[i]].offset > pt.calls[pt.order[i + 1]].offset
  /\ is_complete(pt.piece)
  /\ match_hash(pt.piece)

(***************************************************************************)
(* The blocks buffered in the assemblers, checked under SpecPieces.        *)
(***************************************************************************)
\* the blocks of the piece are pairwise disjoint byte ranges that start at
\* multiples of BLOCK_LEN
AlignedDisjoint(piece) ==
  /\ \A o \in DOMAIN piece.blocks : o % BLOCK_LEN = 0
  /\ \A o1, o2 \in DOMAIN piece.blocks :
       o1 < o2 => o1 + Len(piece.blocks[o1]) <= o2

\* C15: in every reachable state the blocks buffered in each piece assembler
\* of each torrent are pairwise non-overlapping byte ranges of the piece and
\* every buffered offset is a multiple of BLOCK_LEN, whatever WriteBlock
\* commands passed the block_info validation.
BufferedBlocksAlignedDisjoint ==
  \A id \in DOMAIN torrents :
    \A index \in DOMAIN torrents[id].write_buf :
      AlignedDisjoint(torrents[id].write_buf[index])

(***************************************************************************)
(* The file handles' locks, checked under SpecLocks.  Every file handle is *)
(* a std::sync::RwLock<TorrentFile>; piece writes and piece reads run on   *)
(* threads of a pool and walk their file range, holding one guard at a     *)
(* time.  lk is the list of threads: [kind, start, end, pos, holding,      *)
(* held], where pos is the file index the thread is at and held the files  *)
(* whose guard the thread has alive.                                       *)
(***************************************************************************)
\* the threads of the pool
MaxThreads == 3
\* the files of the torrent
MaxLkFiles == 2

\* the guard an operation takes on a file handle, always the shared one
guard_shared(kind) == "read"

\* the guard an operation takes on a file handle: file.write() in Piece::write,
\* file.read() in read
guard_of(kind) == IF kind = "write" THEN "write" ELSE "read"

\* the guard of the iteration kept alive after the loop body
keep_guard(held, f) == held

\* the guard is a local of the loop body (let mut file = file.write().unwrap()):
\* it is dropped when the iteration ends, before the next file's handle is
\* locked, and so on the early return of file.write(..)? as well
drop_guard(held, f) == held \ {f}

\* the operations a thread may run: a piece write or a piece read over a
\* non-empty file range
LkOps ==
  {[kind |-> k, start |-> s, end |-> e, pos |-> s, holding |-> FALSE, held |-> {}] :
     k \in {"write", "read"}, s \in 0..(MaxLkFiles - 1), e \in 1..MaxLkFiles}

\* reads before writes, then by file range
LkKey(op) ==
  ((IF op.kind = "write" THEN 1 ELSE 0) * (MaxLkFiles + 1) + op.start) * (MaxLkFiles + 1)
    + op.end

LkInit ==
  lk \in {x \in [1..MaxThreads -> {op \in LkOps : op.start < op.end}] :
            \A i \in 1..(MaxThreads - 1) : LkKey(x[i]) <= LkKey(x[i + 1])}

InitLocks == IoIdle /\ SysIdle /\ UnitIdle /\ DiskIdle /\ ChanIdle /\ PtIdle /\ BcIdle /\ LkInit

\* the threads that hold a guard of the given mode on the handle of file f
Holders(threads, f, mode) ==
  {t \in 1..Len(threads) :
     f \in threads[t].held /\ guard_of(threads[t].kind) = mode}

\* RwLock::write returns once no guard is held; RwLock::read once no write
\* guard is held
CanLock(threads, f, mode) ==
  /\ Holders(threads, f, "write") = {}
  /\ mode = "write" => Holders(threads, f, "read") = {}

\* the thread t at a file of its range, holding no guard, takes its guard
Lock(t, kind) ==
  /\ lk[t].kind = kind
  /\ ~lk[t].holding
  /\ lk[t].pos < lk[t].end
  /\ CanLock(lk, lk[t].pos, guard_of(kind))
  /\ lk' = [lk EXCEPT ![t].holding = TRUE, ![t].held = @ \cup {lk[t].pos}]
  /\ UNCHANGED <<ioVars, diskVars, chan, pt, bc, unitVars, sysVars>>

\* the guard is dropped at the end of the loop body, after the file IO
Unlock(t, kind) ==
  /\ lk[t].kind = kind
  /\ lk[t].holding
  /\ lk' = [lk EXCEPT ![t].holding = FALSE, ![t].pos = lk[t].pos + 1,
                       ![t].held = drop_guard(@, lk[t].pos)]
  /\ UNCHANGED <<ioVars, diskVars, chan, pt, bc, unitVars, sysVars>>

\* let mut file = file.write().unwrap() in Piece::write
PieceWriteLock == \E t \in 1..Len(lk) : Lock(t, "write")

\* file.write(file_slice, bufs) done, end of the iteration of Piece::write
PieceWriteUnlock == \E t \in 1..Len(lk) : Unlock(t, "write")

\* let file = file.read().unwrap() in read
PieceReadLock == \E t \in 1..Len(lk) : Lock(t, "read")

\* file.read(file_slice) done, end of the iteration of read
PieceReadUnlock == \E t \in 1..Len(lk) : Unlock(t, "read")

NextLocks == PieceWriteLock \/ PieceWriteUnlock \/ PieceReadLock \/ PieceReadUnlock

SpecLocks == InitLocks /\ [][NextLocks]_vars

\* the threads of the given kind that are inside their file IO on file f
Inside(f, kind) == {t \in 1..Len(lk) : lk[t].holding /\ lk[t].pos = f /\ lk[t].kind = kind}

\* C19: the handle of each file follows a reader-writer policy: no two piece
\* writes are inside the IO of one file together, no read of a file overlaps a
\* write of that file, and reads may overlap each other.
FileHandleReaderWriter ==
  \A f \in 0..(MaxLkFiles - 1) :
    /\ Cardinality(Inside(f, "write")) <= 1
    /\ Inside(f, "write") # {} => Inside(f, "read") = {}

\* two reads are inside the IO of one file together while a piece write of
\* that file waits for its guard
FileHandleReaderWriterWitness ==
  \E f \in 0..(MaxLkFiles - 1) :
    /\ Cardinality(Inside(f, "read")) >= 2
    /\ \E t \in 1..Len(lk) : lk[t].kind = "write" /\ lk[t].pos = f /\ ~lk[t].holding

(***************************************************************************)
(* The command channel of the disk worker, checked under SpecShutdown.     *)
(* chan is [enq, handled, result]: the commands sent on the unbounded      *)
(* channel in send order, those the loop of Disk::start has received and   *)
(* run, and what Disk::start returned ("none" while it runs).              *)
(***************************************************************************)
\* the commands sent on the channel
MaxCmds == 3

ShutdownCmd == [NoCmd EXCEPT !.type = "Shutdown"]

\* the commands the engine, the torrents and the peer sessions send for the
\* torrents of m
Commands(m) ==
  {ShutdownCmd}
  \cup {[NoCmd EXCEPT !.type = "NewTorrent", !.id = id] : id \in DOMAIN m}
  \cup UNION {{[type |-> "WriteBlock", id |-> id, block_info |-> b,
                data |-> BlockData(m[id], b, TRUE)] : b \in BlockInfos(m[id])} :
              id \in DOMAIN m}
  \cup UNION {{[NoCmd EXCEPT !.type = "ReadBlock", !.id = id, !.block_info = b] :
                b \in ReadInfos(m[id])} : id \in DOMAIN m}

\* the Shutdown arm with `continue` in place of `break`
start_arm_continue(ts, disk, m, c) ==
  IF c.type = "NewTorrent"
  THEN start_NewTorrent(ts, disk, c.id, m[c.id], PieceHashes(m[c.id], 0), Len(m[c.id].files))
  ELSE IF c.type = "WriteBlock"
  THEN Disk_write_block(ts, disk, c.id, c.block_info, c.data, NoFault)
  ELSE IF c.type = "ReadBlock"
  THEN Disk_read_block(ts, disk, c.id, c.block_info)
  ELSE [state |-> "running", torrents |-> ts, fs |-> disk, log |-> <<>>, sent |-> <<>>]

\* `match cmd` of Disk::start: the arm of the command received, with no OS
\* call failing
start_arm(ts, disk, m, c) ==
  IF c.type = "NewTorrent"
  THEN start_NewTorrent(ts, disk, c.id, m[c.id], PieceHashes(m[c.id], 0), Len(m[c.id].files))
  ELSE IF c.type = "WriteBlock"
  THEN Disk_write_block(ts, disk, c.id, c.block_info, c.data, NoFault)
  ELSE IF c.type = "ReadBlock"
  THEN Disk_read_block(ts, disk, c.id, c.block_info)
  ELSE [state |-> "shutdown", torrents |-> ts, fs |-> disk, log |-> <<>>, sent |-> <<>>]

\* what Disk::start returns when the loop ends in the given state
start_result(state) ==
  IF state = "running" THEN "none" ELSE IF state = "shutdown" THEN "Ok" ELSE "Err"

ChanInit == chan = [enq |-> <<>>, handled |-> <<>>, result |-> "none"]

InitShutdown ==
  /\ IoIdle /\ SysIdle /\ UnitIdle /\ PtIdle /\ LkIdle /\ BcIdle
  /\ meta = [id \in {1} |-> SmallLayout]
  /\ DiskInit
  /\ ChanInit

\* disk_tx.send(cmd): the channel is unbounded, a send never waits
Send ==
  /\ Len(chan.enq) < MaxCmds
  /\ \E c \in Commands(meta) : chan' = [chan EXCEPT !.enq = Append(chan.enq, c)]
  /\ UNCHANGED <<ioVars, diskVars, pt, lk, bc, unitVars, sysVars>>

\* one iteration of `while let Some(cmd) = self.cmd_rx.recv().await`
Recv ==
  /\ disk_state = "running"
  /\ Len(chan.handled) < Len(chan.enq)
  /\ \E c \in {chan.enq[Len(chan.handled) + 1]} :
     \E r \in {start_arm(torrents, fs, meta, c)} :
       /\ disk_state' = r.state
       /\ torrents' = r.torrents
       /\ fs' = r.fs
       /\ sent' = r.sent
       /\ io_log' = r.log
       /\ valid_pieces' = valid_pieces \cup ValidCompletions(r.sent)
       /\ cmd' = c
       /\ chan' = [chan EXCEPT !.handled = Append(chan.handled, c),
                               !.result = start_result(r.state)]
  /\ UNCHANGED <<meta, faults_left, ioVars, pt, lk, bc, unitVars, sysVars>>

NextShutdown == Send \/ Recv

SpecShutdown == InitShutdown /\ [][NextShutdown]_vars

\* a Shutdown command is among the commands
HasShutdown(cmds) == \E i \in 1..Len(cmds) : cmds[i].type = "Shutdown"

\* C11: when the worker receives a Shutdown command its loop ends and
\* Disk::start returns Ok; the commands it has run are then exactly the
\* commands sent up to and including that Shutdown, in send order, and from
\* then on it runs no command, whatever is sent.
ShutdownEndsLoop ==
  [][/\ (Len(chan'.handled) > Len(chan.handled) /\ cmd'.type = "Shutdown") =>
          /\ disk_state' = "shutdown"
          /\ chan'.result = "Ok"
          /\ chan'.handled = SubSeq(chan'.enq, 1, Len(chan'.handled))
          /\ ~HasShutdown(chan.handled)
     /\ HasShutdown(chan.handled) =>
          /\ chan'.handled = chan.handled
          /\ chan'.result = chan.result
          /\ <<torrents', fs'>> = <<torrents, fs>>]_vars

\* the worker ended with Ok on a Shutdown that followed a command it ran, and
\* a command sent after the Shutdown is left in the channel
ShutdownEndsLoopWitness ==
  /\ chan # <<>>
  /\ chan.result = "Ok"
  /\ Len(chan.handled) >= 2
  /\ Len(chan.enq) > Len(chan.handled)
  /\ disk_state = "shutdown"

(***************************************************************************)
(* block_len over the whole range of its arguments, checked under          *)
(* SpecBlockLen.  The model's u32 holds 0..MaxU32 and its usize twice as   *)
(* many values and more, so that an index can be too large for a u32 and   *)
(* a product can overflow.  bl is [piece_len, block_index,                 *)
(* overflow_checks, result].                                               *)
(***************************************************************************)
\* u32::MAX of the model
MaxU32 == 15

\* usize::MAX of the model
MaxUsize == 2 * (MaxU32 + 1) + 1

\* `x as u32`: the low bits of x
as_u32(x) == x % (MaxU32 + 1)

\* what a call made: it returned len, or it panicked
Returned(len) == [called |-> TRUE, panicked |-> FALSE, len |-> len]
Panicked == [called |-> TRUE, panicked |-> TRUE, len |-> 0]

\* block_len with the widths of its types.  The u32 product panics when it
\* overflows in a build with overflow checks and wraps in a build without.
block_len_u32(piece_len, block_index, overflow_checks) ==
  LET product == as_u32(block_index) * BLOCK_LEN
      block_offset == as_u32(product)
  IN IF product > MaxU32 /\ overflow_checks THEN Panicked
     ELSE IF ~(piece_len > block_offset) THEN Panicked
     ELSE Returned(Min(piece_len - block_offset, BLOCK_LEN))

NotCalled == [called |-> FALSE, panicked |-> FALSE, len |-> 0]

BlInit ==
  bl \in {[piece_len |-> n, block_index |-> i, overflow_checks |-> c, result |-> NotCalled] :
            n \in 0..MaxU32, i \in 0..MaxUsize, c \in BOOLEAN}

InitBlockLen == IoIdle /\ SysIdle /\ DiskIdle /\ AuxIdle /\ BlInit /\ AvgIdle /\ WireIdle /\ MiIdle /\ IdsIdle

\* let len = block_len(piece_len, block_index)
BlockLen ==
  /\ bl.result = NotCalled
  /\ bl' = [bl EXCEPT !.result = block_len_u32(bl.piece_len, bl.block_index, bl.overflow_checks)]
  /\ UNCHANGED <<ioVars, diskVars, auxVars, avg, wire, mi, ids, sysVars>>

NextBlockLen == BlockLen

SpecBlockLen == InitBlockLen /\ [][NextBlockLen]_vars

\* C21: for every piece_len and every index i < block_count(piece_len),
\* block_len(piece_len, i) is min(BLOCK_LEN, piece_len - i * BLOCK_LEN) and
\* positive; for every index i >= block_count(piece_len), over the whole range
\* of the index type, block_len panics.
BlockLenOrPanic ==
  bl.result # NotCalled =>
    IF bl.block_index < block_count(bl.piece_len)
    THEN /\ bl.result = Returned(Min(BLOCK_LEN, bl.piece_len - bl.block_index * BLOCK_LEN))
         /\ bl.result.len > 0
    ELSE bl.result = Panicked

(***************************************************************************)
(* The sliding average (avg.rs), checked under SpecAvg.  avg is            *)
(* [a, panicked, updates, last, reported, script]: the SlidingAvg, whether *)
(* an update panicked, the number of updates made, the last sample, what   *)
(* mean() returned after it, and how many samples of the test's sequence   *)
(* were fed (-1 once another sample was fed).                              *)
(***************************************************************************)
\* the largest inverted gain tried
MaxGain == 4
\* the samples tried are -MaxSample..MaxSample
MaxSample == 3
\* the updates made with those samples
MaxUpdates == 3

\* the inverted gain, the samples and the means of test_sliding_average
TestGain == 4
TestSamples == <<10, 15, 20, 19, 20, 21, 118>>
TestMeans == <<10, 13, 15, 16, 17, 18, 43>>

Abs(x) == IF x < 0 THEN 0 - x ELSE x

\* the division of i64: the quotient is rounded toward zero
i64_div(x, y) ==
  IF (x < 0) = (y < 0) THEN Abs(x) \div Abs(y) ELSE 0 - (Abs(x) \div Abs(y))

SlidingAvg_new(inverted_gain) ==
  [mean |-> 0, deviation |-> 0, sample_count |-> 0, inverted_gain |-> inverted_gain]

\* update with a sample count that grows past inverted_gain
SlidingAvg_update_uncapped(a, sample) ==
  LET scaled == sample * 64
      deviation == IF a.sample_count > 0 THEN Abs(a.mean - scaled) ELSE 0
      count == a.sample_count + 1
  IN [panic |-> FALSE,
      a |-> [a EXCEPT !.sample_count = count,
                      !.mean = a.mean + i64_div(scaled - a.mean, count),
                      !.deviation = IF count > 1
                                    THEN a.deviation
                                           + i64_div(deviation - a.deviation, count - 1)
                                    ELSE a.deviation]]

\* update with the gain 1/inverted_gain from the first sample on
SlidingAvg_update_unweighted(a, sample) ==
  LET scaled == sample * 64
      deviation == IF a.sample_count > 0 THEN Abs(a.mean - scaled) ELSE 0
      count == IF a.sample_count < a.inverted_gain THEN a.sample_count + 1
               ELSE a.sample_count
  IN IF count = 0 THEN [panic |-> TRUE, a |-> a]
     ELSE [panic |-> FALSE,
           a |-> [a EXCEPT !.sample_count = count,
                           !.mean = a.mean + i64_div(scaled - a.mean, a.inverted_gain),
                           !.deviation = IF count > 1
                                         THEN a.deviation
                                                + i64_div(deviation - a.deviation, count - 1)
                                         ELSE a.deviation]]

\* SlidingAvg::update; with inverted_gain = 0 the sample count stays 0 and the
\* division by it panics
SlidingAvg_update(a, sample) ==
  LET scaled == sample * 64
      deviation == IF a.sample_count > 0 THEN Abs(a.mean - scaled) ELSE 0
      count == IF a.sample_count < a.inverted_gain THEN a.sample_count + 1
               ELSE a.sample_count
  IN IF count = 0 THEN [panic |-> TRUE, a |-> a]
     ELSE [panic |-> FALSE,
           a |-> [a EXCEPT !.sample_count = count,
                           !.mean = a.mean + i64_div(scaled - a.mean, count),
                           !.deviation = IF count > 1
                                         THEN a.deviation
                                                + i64_div(deviation - a.deviation, count - 1)
                                         ELSE a.deviation]]

\* SlidingAvg::mean
SlidingAvg_mean(a) == IF a.sample_count = 0 THEN 0 ELSE i64_div(a.mean + 32, 64)

AvgInit ==
  avg \in {[a |-> SlidingAvg_new(g), panicked |-> FALSE, updates |-> 0, last |-> 0,
            reported |-> 0, script |-> 0] : g \in 0..MaxGain}

InitAvg == IoIdle /\ SysIdle /\ DiskIdle /\ AuxIdle /\ BlIdle /\ AvgInit /\ WireIdle /\ MiIdle /\ IdsIdle

\* a.update(sample) followed by a.mean()
Fed(sample, script) ==
  /\ ~avg.panicked
  /\ \E r \in {SlidingAvg_update(avg.a, sample)} :
       avg' = [a |-> r.a, panicked |-> r.panic, updates |-> avg.updates + 1,
               last |-> sample, reported |-> SlidingAvg_mean(r.a), script |-> script]
  /\ UNCHANGED <<ioVars, diskVars, auxVars, bl, wire, mi, ids, sysVars>>

\* an update with a sample of the range tried
Update ==
  /\ avg.updates < MaxUpdates
  /\ \E sample \in (0 - MaxSample)..MaxSample : Fed(sample, 0 - 1)

\* an update with the next sample of test_sliding_average
UpdateTest ==
  /\ avg.script >= 0
  /\ avg.script = avg.updates
  /\ avg.script < Len(TestSamples)
  /\ Fed(TestSamples[avg.script + 1], avg.script + 1)

NextAvg == Update \/ UpdateTest

SpecAvg == InitAvg /\ [][NextAvg]_vars

\* C22: after exactly one update(s) on a new SlidingAvg with inverted_gain >= 1,
\* mean() returns s, for negative, zero and positive samples s.
FirstSampleIsMean ==
  (avg.updates = 1 /\ avg.a.inverted_gain >= 1) => avg.reported = avg.last

\* C23: in every state 0 <= sample_count <= inverted_gain; an update raises
\* sample_count by one while it is below inverted_gain and leaves it unchanged
\* once it equals inverted_gain.
SampleCountCapped ==
  [][/\ 0 <= avg.a.sample_count /\ avg.a.sample_count <= avg.a.inverted_gain
     /\ 0 <= avg'.a.sample_count /\ avg'.a.sample_count <= avg'.a.inverted_gain
     /\ avg'.updates = avg.updates + 1 =>
          avg'.a.sample_count =
            IF avg.a.sample_count < avg.a.inverted_gain THEN avg.a.sample_count + 1
            ELSE avg.a.sample_count]_vars

\* an update was made on a SlidingAvg whose sample count had reached its
\* inverted gain of two or more
SampleCountCappedWitness ==
  /\ avg # <<>>
  /\ avg.a.inverted_gain >= 2
  /\ avg.a.sample_count = avg.a.inverted_gain
  /\ avg.updates > avg.a.inverted_gain

\* C24: each update(s) changes the fixed-point mean to mean + (64*s - mean) / n
\* with n = min(sample_count before + 1, inverted_gain), in the integer
\* arithmetic of i64, and mean() reports (mean + 32) / 64; with inverted_gain 4
\* and the samples 10, 15, 20, 19, 20, 21, 118 the reported means are
\* 10, 13, 15, 16, 17, 18, 43.
UpdateWeighsByCount ==
  [][(avg'.updates = avg.updates + 1 /\ avg.a.inverted_gain >= 1) =>
       /\ ~avg'.panicked
       /\ avg'.a.mean =
            avg.a.mean + i64_div(64 * avg'.last - avg.a.mean,
                                 Min(avg.a.sample_count + 1, avg.a.inverted_gain))
       /\ avg'.reported = i64_div(avg'.a.mean + 32, 64)
       /\ (avg'.script >= 1 /\ avg.a.inverted_gain = TestGain) =>
            avg'.reported = TestMeans[avg'.script]]_vars

\* the whole sequence of the test was fed to a SlidingAvg of inverted gain 4
UpdateWeighsByCountWitness ==
  /\ avg # <<>>
  /\ avg.a.inverted_gain = TestGain
  /\ avg.script = Len(TestSamples)
  /\ avg.reported = TestMeans[Len(TestMeans)]

(***************************************************************************)
(* The peer wire codecs (peer/codec), checked under SpecCodec.  wire is    *)
(* [kind, item, valid, pc, stream, frame_len, delivered, buf, fresh,       *)
(* missed, before, last]: the codec, the value sent, whether its frame is  *)
(* a valid one, the bytes on the wire, the length of the frame, how many   *)
(* bytes reached the read buffer, the read buffer, whether bytes arrived   *)
(* since the last decode, whether a decode returned None, the read buffer  *)
(* before the last decode and the result of the last decode.               *)
(***************************************************************************)
\* "BitTorrent protocol"
PROTOCOL_STRING ==
  <<66, 105, 116, 84, 111, 114, 114, 101, 110, 116, 32, 112, 114, 111, 116, 111, 99, 111, 108>>

\* the lengths of the fields after the protocol string: reserved, info_hash,
\* peer_id
RESERVED_LEN == 8
ID_LEN == 20

\* n bytes counting up from b
Bytes(n, b) == [i \in 1..n |-> (b + i) % 256]

\* Handshake::new with one of two info hashes and peer ids, and the same with
\* an extension bit announced
Handshakes ==
  {[prot |-> PROTOCOL_STRING, reserved |-> r, info_hash |-> Bytes(ID_LEN, h),
    peer_id |-> Bytes(ID_LEN, p)] :
     r \in {[i \in 1..RESERVED_LEN |-> 0],
            [i \in 1..RESERVED_LEN |-> IF i = 6 THEN 16 ELSE 0]},
     h \in {0, 96}, p \in {48, 240}}

\* protocol strings a remote peer may send in place of the canonical one: a
\* longer one, a shorter one, and one of the same length
OtherProts ==
  {<<110, 111, 116, 32, 116, 104, 101, 32>> \o PROTOCOL_STRING,
   Upto(PROTOCOL_STRING, Len(PROTOCOL_STRING) - 1),
   [PROTOCOL_STRING EXCEPT ![1] = 98]}

\* the bytes a peer puts on the wire for a handshake, whatever its protocol
\* string
handshake_bytes(h) == <<Len(h.prot)>> \o h.prot \o h.reserved \o h.info_hash \o h.peer_id

\* HandshakeCodec::encode (its debug assertions hold for the canonical string)
HandshakeCodec_encode(h) ==
  <<Len(h.prot)>> \o h.prot \o h.reserved \o h.info_hash \o h.peer_id

\* the results of Decoder::decode
DecodedNone(buf) == [res |-> "None", item |-> <<>>, buf |-> buf]
DecodedSome(item, buf) == [res |-> "Some", item |-> item, buf |-> buf]
DecodedErr(e, buf) == [res |-> e, item |-> <<>>, buf |-> buf]

\* decode that consumes the length prefix before the frame is complete
HandshakeCodec_decode_eager(buf) ==
  IF buf = <<>> THEN DecodedNone(buf)
  ELSE IF buf[1] # Len(PROTOCOL_STRING) THEN DecodedErr("InvalidInput", buf)
  ELSE IF ~(Len(buf) > buf[1] + RESERVED_LEN + ID_LEN + ID_LEN) THEN DecodedNone(From(buf, 1))
  ELSE DecodedSome([prot |-> SubSeq(buf, 2, 20), reserved |-> SubSeq(buf, 21, 28),
                    info_hash |-> SubSeq(buf, 29, 48), peer_id |-> SubSeq(buf, 49, 68)],
                   From(buf, 68))

\* decode that leaves the length prefix in the buffer
HandshakeCodec_decode_unadvanced(buf) ==
  IF buf = <<>> THEN DecodedNone(buf)
  ELSE IF buf[1] # Len(PROTOCOL_STRING) THEN DecodedErr("InvalidInput", buf)
  ELSE IF ~(Len(buf) > buf[1] + RESERVED_LEN + ID_LEN + ID_LEN) THEN DecodedNone(buf)
  ELSE DecodedSome([prot |-> SubSeq(buf, 1, 19), reserved |-> SubSeq(buf, 20, 27),
                    info_hash |-> SubSeq(buf, 28, 47), peer_id |-> SubSeq(buf, 48, 67)],
                   From(buf, 67))

\* HandshakeCodec::decode
HandshakeCodec_decode(buf) ==
  IF buf = <<>> THEN DecodedNone(buf)
  ELSE IF buf[1] # Len(PROTOCOL_STRING) THEN DecodedErr("InvalidInput", buf)
  ELSE IF ~(Len(buf) > buf[1] + RESERVED_LEN + ID_LEN + ID_LEN) THEN DecodedNone(buf)
  ELSE DecodedSome([prot |-> SubSeq(buf, 2, 20), reserved |-> SubSeq(buf, 21, 28),
                    info_hash |-> SubSeq(buf, 29, 48), peer_id |-> SubSeq(buf, 49, 68)],
                   From(buf, 68))

\* the payload bytes of the Block message and the bytes of the Bitfield tried
MaxPayload == 3

\* put_u32: four bytes, big-endian
be32(n) == <<(n \div 16777216) % 256, (n \div 65536) % 256, (n \div 256) % 256, n % 256>>

\* get_u32
from_be32(b) == ((b[1] * 256 + b[2]) * 256 + b[3]) * 256 + b[4]

\* a peer message; the fields a kind does not have are zero or empty
Message(type, piece_index, offset, len, data) ==
  [type |-> type, piece_index |-> piece_index, offset |-> offset, len |-> len, data |-> data]

\* MessageId, by its number on the wire
MessageIds ==
  <<"Choke", "Unchoke", "Interested", "NotInterested", "Have", "Bitfield", "Request",
    "Block", "Cancel">>

MessageIdOf(type) == (CHOOSE i \in 1..Len(MessageIds) : MessageIds[i] = type) - 1

\* the messages of the codec tests, the block and the bitfield cut to
\* MaxPayload bytes
Messages ==
  {Message(t, 0, 0, 0, <<>>) :
     t \in {"KeepAlive", "Choke", "Unchoke", "Interested", "NotInterested"}}
  \cup {Message("Have", 42, 0, 0, <<>>),
        Message("Bitfield", 0, 0, 0, Upto(<<201, 131, 251>>, MaxPayload)),
        Message("Request", 42, BLOCK_LEN_SRC, BLOCK_LEN_SRC, <<>>),
        Message("Cancel", 42, BLOCK_LEN_SRC, BLOCK_LEN_SRC, <<>>),
        Message("Block", 42, BLOCK_LEN_SRC, 0, Bytes(MaxPayload, 6))}

\* PeerCodec::encode: the length prefix, the id and the payload
PeerCodec_encode(m) ==
  IF m.type = "KeepAlive" THEN be32(0)
  ELSE IF m.type = "Have" THEN be32(5) \o <<MessageIdOf(m.type)>> \o be32(m.piece_index)
  ELSE IF m.type = "Bitfield" THEN be32(1 + Len(m.data)) \o <<MessageIdOf(m.type)>> \o m.data
  ELSE IF m.type \in {"Request", "Cancel"}
  THEN be32(13) \o <<MessageIdOf(m.type)>> \o be32(m.piece_index) \o be32(m.offset)
         \o be32(m.len)
  ELSE IF m.type = "Block"
  THEN be32(9 + Len(m.data)) \o <<MessageIdOf(m.type)>> \o be32(m.piece_index)
         \o be32(m.offset) \o m.data
  ELSE be32(1) \o <<MessageIdOf(m.type)>>

\* the message in a complete frame of msg_len >= 1 bytes after the prefix
PeerCodec_parse(frame, msg_len) ==
  LET id == frame[5]
      type == MessageIds[id + 1]
      word(k) == from_be32(SubSeq(frame, 6 + 4 * k, 9 + 4 * k))
  IN IF type = "Have" THEN Message(type, word(0), 0, 0, <<>>)
     ELSE IF type = "Bitfield" THEN Message(type, 0, 0, 0, SubSeq(frame, 6, 4 + msg_len))
     ELSE IF type \in {"Request", "Cancel"} THEN Message(type, word(0), word(1), word(2), <<>>)
     ELSE IF type = "Block"
     THEN Message(type, word(0), word(1), 0, SubSeq(frame, 14, 4 + msg_len))
     ELSE Message(type, 0, 0, 0, <<>>)

\* PeerCodec::decode: the length prefix is peeked at, and the frame is taken
\* out of the buffer once all its bytes are there
PeerCodec_decode(buf) ==
  LET framed(msg_len) ==
        IF Len(buf) < 4 + msg_len THEN DecodedNone(buf)
        ELSE IF msg_len = 0 THEN DecodedSome(Message("KeepAlive", 0, 0, 0, <<>>), From(buf, 4))
        ELSE IF buf[5] >= Len(MessageIds) THEN DecodedErr("InvalidInput", From(buf, 5))
        ELSE DecodedSome(PeerCodec_parse(buf, msg_len), From(buf, 4 + msg_len))
  IN IF Len(buf) < 4 THEN DecodedNone(buf) ELSE framed(from_be32(buf))

\* the bytes that follow the frame on the wire: none, the start of a frame, a
\* whole frame
Trailing == {<<>>, <<0, 0>>, <<0, 0, 0, 1, 0>>}

NotDecoded == [res |-> "none", item |-> <<>>, buf |-> <<>>]

\* a codec with a value to send, nothing on the wire yet
WireNew(kind, item, trailing) ==
  [kind |-> kind, item |-> item, valid |-> TRUE, pc |-> "new", stream |-> trailing,
   frame_len |-> 0, delivered |-> 0, buf |-> <<>>, fresh |-> TRUE, missed |-> FALSE,
   before |-> <<>>,
   last |-> NotDecoded]

\* a handshake codec and the bytes of a remote peer's handshake on the wire
WireRemote(h) ==
  [WireNew("handshake", h, <<>>) EXCEPT !.valid = h.prot = PROTOCOL_STRING, !.pc = "sent",
                                        !.stream = handshake_bytes(h),
                                        !.frame_len = Len(handshake_bytes(h))]

WireInit ==
  wire \in {WireNew("handshake", h, t) : h \in Handshakes, t \in Trailing}
           \cup {WireNew("peer", m, t) : m \in Messages, t \in Trailing}
           \cup {WireRemote([h EXCEPT !.prot = p]) : h \in Handshakes, p \in OtherProts}

InitCodec == IoIdle /\ SysIdle /\ DiskIdle /\ AuxIdle /\ BlIdle /\ AvgIdle /\ WireInit /\ MiIdle /\ IdsIdle

\* the encoder's output goes on the wire, before the bytes that follow
Encoded(kind, bytes) ==
  /\ wire.pc = "new"
  /\ wire.kind = kind
  /\ wire' = [wire EXCEPT !.pc = "sent", !.stream = bytes \o wire.stream,
                          !.frame_len = Len(bytes)]
  /\ UNCHANGED <<ioVars, diskVars, auxVars, bl, avg, mi, ids, sysVars>>

\* HandshakeCodec.encode(handshake, &mut buf)
EncodeHandshake == Encoded("handshake", HandshakeCodec_encode(wire.item))

\* PeerCodec.encode(msg, &mut buf)
EncodeMessage == Encoded("peer", PeerCodec_encode(wire.item))

\* read_buf.extend_from_slice: the next bytes of the wire reach the read buffer
Receive ==
  /\ wire.pc = "sent"
  /\ \E k \in 1..(Len(wire.stream) - wire.delivered) :
       wire' = [wire EXCEPT !.delivered = wire.delivered + k,
                            !.buf = wire.buf \o SubSeq(wire.stream, wire.delivered + 1,
                                                      wire.delivered + k),
                            !.fresh = TRUE]
  /\ UNCHANGED <<ioVars, diskVars, auxVars, bl, avg, mi, ids, sysVars>>

\* a decode attempt on the read buffer, until a message or an error comes out
Decoded(kind, r) ==
  /\ wire.pc = "sent"
  /\ wire.kind = kind
  /\ wire.fresh
  /\ wire' = [wire EXCEPT !.pc = IF r.res = "None" THEN "sent" ELSE "done",
                          !.buf = r.buf, !.fresh = FALSE,
                          !.missed = wire.missed \/ r.res = "None", !.before = wire.buf,
                          !.last = r]
  /\ UNCHANGED <<ioVars, diskVars, auxVars, bl, avg, mi, ids, sysVars>>

\* HandshakeCodec.decode(&mut read_buf)
DecodeHandshake == \E r \in {HandshakeCodec_decode(wire.buf)} : Decoded("handshake", r)

\* PeerCodec.decode(&mut read_buf)
DecodeMessage == \E r \in {PeerCodec_decode(wire.buf)} : Decoded("peer", r)

NextCodec == EncodeHandshake \/ EncodeMessage \/ Receive \/ DecodeHandshake \/ DecodeMessage

SpecCodec == InitCodec /\ [][NextCodec]_vars

OtherProtocolIsInvalidInput ==
  (wire # <<>> /\ wire.kind = "handshake" /\ ~wire.valid) =>
    /\ wire.last.res \in {"none", "None", "InvalidInput"}
    /\ (wire.delivered = Len(wire.stream) /\ ~wire.fresh) => wire.last.res = "InvalidInput"

\* C27: while the read buffer holds only a proper prefix of a valid frame, of a
\* handshake or of a peer message, decode returns None and leaves the buffer
\* as it is, wherever the frame is cut; the next decode after the missing
\* bytes arrived returns the complete message.
PartialFrameIsNone ==
  (wire # <<>> /\ wire.valid /\ wire.pc # "new" /\ ~wire.fresh) =>
    /\ wire.before = Upto(wire.stream, wire.delivered)
    /\ IF wire.delivered < wire.frame_len
       THEN wire.last.res = "None" /\ wire.buf = wire.before
       ELSE wire.last.res = "Some" /\ wire.last.item = wire.item

\* a decode found half a handshake
PartialHandshakeWitness ==
  /\ wire # <<>>
  /\ wire.kind = "handshake" /\ wire.valid /\ ~wire.fresh
  /\ wire.delivered = 34 /\ wire.last.res = "None"

\* a block message came out of a buffer in which an earlier decode had found
\* no complete frame
PartialFrameIsNoneWitness ==
  /\ wire # <<>>
  /\ wire.kind = "peer" /\ wire.item.type = "Block" /\ ~wire.fresh
  /\ wire.missed /\ wire.last.res = "Some"
  /\ Len(wire.before) > wire.frame_len

(***************************************************************************)
(* Metainfo::from_bytes (metainfo.rs), checked under SpecMetainfo.  mi is  *)
(* [raw, overflow_checks, pc, result]: the deserialized raw::Metainfo,     *)
(* whether the build checks integer overflow, and the result once          *)
(* from_bytes was called.  A string is a sequence of characters, the u64   *)
(* is scaled to MaxU64 + 1 values, and paths follow std::path on Unix.     *)
(***************************************************************************)
\* the largest u64 of the scaled model, and the most files of a torrent tried
MaxU64 == 7
MaxMiFiles == 4

as_u64(x) == x % (MaxU64 + 1)

\* the largest length the bencode integer of a file can hold
MaxLen == MaxU64 \div 2

\* PathBuf::push
PathBuf_push(buf, path) ==
  IF path # <<>> /\ path[1] = "/" THEN path
  ELSE IF buf # <<>> /\ buf[Len(buf)] # "/" THEN buf \o <<"/">> \o path
  ELSE buf \o path

\* file.path.iter().collect(): the components pushed in turn on an empty PathBuf
RECURSIVE PathBuf_collect(_, _)
PathBuf_collect(buf, components) ==
  IF components = <<>> THEN buf
  ELSE PathBuf_collect(PathBuf_push(buf, Head(components)), Tail(components))

\* Path::is_absolute
is_absolute(path) == path # <<>> /\ path[1] = "/"

\* path == Path::new("/"): the root and nothing else
is_root(path) == path # <<>> /\ \A i \in 1..Len(path) : path[i] = "/"

FileInfo(path, torrent_offset, len) == [path |-> path, torrent_offset |-> torrent_offset, len |-> len]

\* the results of from_bytes
MiOk(files, trackers) == [res |-> "Ok", files |-> files, trackers |-> trackers]
MiErr(e) == [res |-> e, files |-> <<>>, trackers |-> 0]

\* the loop over raw_files: each file is verified and collected at the offset
\* reached, and the offset advances by its length in u64
RECURSIVE collect_files(_, _, _, _)
collect_files(raw_files, files, torrent_offset, overflow_checks) ==
  IF raw_files = <<>> THEN MiOk(files, 0)
  ELSE LET file == Head(raw_files)
           path == PathBuf_collect(<<>>, file.path)
       IN IF file.len = 0 \/ path = <<>> \/ is_absolute(path) \/ is_root(path)
          THEN MiErr("InvalidMetainfo")
          ELSE IF torrent_offset + file.len > MaxU64 /\ overflow_checks THEN MiErr("panic")
          ELSE collect_files(Tail(raw_files),
                             Append(files, FileInfo(path, torrent_offset, file.len)),
                             as_u64(torrent_offset + file.len), overflow_checks)

\* the download structure of from_bytes
build_files(info, overflow_checks) ==
  IF info.len.some
  THEN IF info.files.some \/ info.len.v = 0 THEN MiErr("InvalidMetainfo")
       ELSE MiOk(<<FileInfo(info.name, 0, info.len.v)>>, 0)
  ELSE IF info.files.some
  THEN IF info.files.v = <<>> THEN MiErr("InvalidMetainfo")
       ELSE collect_files(info.files.v, <<>>, 0, overflow_checks)
  ELSE MiErr("InvalidMetainfo")

\* the trackers of from_bytes: the announce URL is parsed and kept when it is
\* an HTTP one
build_trackers(announce) ==
  IF announce = "unparsable" THEN MiErr("InvalidTrackerUrl")
  ELSE MiOk(<<>>, IF announce = "http" THEN 1 ELSE 0)

\* Metainfo::from_bytes on the deserialized metainfo
from_bytes(raw, overflow_checks) ==
  LET tracked(built, trackers) ==
        IF built.res # "Ok" THEN built
        ELSE IF trackers.res # "Ok" THEN trackers
        ELSE MiOk(built.files, trackers.trackers)
  IN IF raw.info.pieces_len % SHA1_LEN # 0 THEN MiErr("InvalidMetainfo")
     ELSE tracked(build_files(raw.info, overflow_checks), build_trackers(raw.announce))

Some(v) == [some |-> TRUE, v |-> v]

\* the torrent names tried: empty, a file name, the root, an absolute path
Names == {<<>>, <<"a">>, <<"/">>, <<"/", "a">>}

\* the path lists tried for one file of a multi-file torrent: no component, an
\* empty one, the root, an absolute second component, two names, an empty
\* second component
PathsTried ==
  {<<>>, <<<<>>>>, <<<<"/">>>>, <<<<"a">>, <<"/", "b">>>>, <<<<"a">>, <<"b">>>>,
   <<<<"a">>, <<>>>>}

\* the last component of the path of the i-th file
Digits == <<"1", "2", "3", "4", "5", "6", "7", "8", "9">>

\* the file lists tried: every length for every file, and at most one file
\* with a path of PathsTried among files named after their position
RawFiles ==
  {[i \in 1..Len(lens) |-> [len |-> lens[i],
                            path |-> IF i = odd THEN p ELSE <<<<"d">>, <<Digits[i]>>>>]] :
     odd \in 0..MaxMiFiles, p \in PathsTried,
     lens \in UNION {[1..k -> {0, 1, MaxLen}] : k \in 1..MaxMiFiles}}

\* info dictionaries: a single file, several files, both keys, neither key
Infos ==
  {[name |-> name, len |-> len, files |-> files] :
     name \in Names, len \in {Some(0), Some(1), Some(MaxLen)},
     files \in {[some |-> FALSE, v |-> <<>>], Some(<<>>)}}
  \cup {[name |-> <<"a">>, len |-> [some |-> FALSE, v |-> 0], files |-> files] :
          files \in {[some |-> FALSE, v |-> <<>>], Some(<<>>)} \cup {Some(f) : f \in RawFiles}}

NotParsed == [res |-> "none", files |-> <<>>, trackers |-> 0]

MiInit ==
  mi \in {[raw |-> [info |-> [name |-> info.name, len |-> info.len, files |-> info.files,
                              pieces_len |-> pieces_len],
                    announce |-> announce],
           overflow_checks |-> overflow_checks, pc |-> "new", result |-> NotParsed] :
            info \in Infos, pieces_len \in {SHA1_LEN, SHA1_LEN + 1},
            announce \in {"none", "http", "udp", "unparsable"}, overflow_checks \in BOOLEAN}

InitMetainfo == IoIdle /\ SysIdle /\ DiskIdle /\ AuxIdle /\ BlIdle /\ AvgIdle /\ WireIdle /\ MiInit /\ IdsIdle

\* Metainfo::from_bytes(bytes)
FromBytes ==
  /\ mi.pc = "new"
  /\ \E r \in {from_bytes(mi.raw, mi.overflow_checks)} :
       mi' = [mi EXCEPT !.pc = "done", !.result = r]
  /\ UNCHANGED <<ioVars, diskVars, auxVars, bl, avg, wire, ids, sysVars>>

NextMetainfo == FromBytes

SpecMetainfo == InitMetainfo /\ [][NextMetainfo]_vars

\* C28: every FileInfo that from_bytes produces, for a single-file torrent
\* (path from info.name) and for a multi-file one, has len > 0 and a path
\* that is not empty, not absolute and not the root; every other input is
\* rejected with InvalidMetainfo.
FileInfosAreValid ==
  (mi # <<>> /\ mi.pc = "done" /\ mi.result.res = "Ok") =>
    \A i \in 1..Len(mi.result.files) :
      LET file == mi.result.files[i]
      IN file.len > 0 /\ file.path # <<>> /\ ~is_absolute(file.path) /\ ~is_root(file.path)

\* C29: the FileInfo list keeps the declaration order of the files, the first
\* torrent_offset is 0 and each torrent_offset is the sum of the lengths of
\* the files before it.
OffsetsArePrefixSums ==
  (mi # <<>> /\ mi.pc = "done" /\ mi.result.res = "Ok" /\ mi.raw.info.files.some) =>
    LET raw_files == mi.raw.info.files.v
        files == mi.result.files
    IN /\ Len(files) = Len(raw_files)
       /\ \A i \in 1..Len(files) :
            /\ files[i].len = raw_files[i].len
            /\ files[i].path = PathBuf_collect(<<>>, raw_files[i].path)
            /\ files[i].torrent_offset = Sum([j \in 1..(i - 1) |-> raw_files[j].len])

(***************************************************************************)
(* TorrentId::new (define.rs), checked under SpecIds.  ids is              *)
(* [TORRENT_ID, issued, sent, threads]: the static atomic counter, the     *)
(* ids in the order the calls took them, the ids in the order              *)
(* create_torrent sent them to the engine, and for each thread whether it  *)
(* is inside create_torrent and with which id.  The u32 is scaled to       *)
(* MaxId + 1 values.                                                       *)
(***************************************************************************)
\* the largest value of the scaled AtomicU32, the threads that create
\* torrents, and the calls of TorrentId::new in a run
MaxId == 3
MaxIdThreads == 3
MaxNewCalls == 5

\* AtomicU32::fetch_add(1): the value before, and the counter after, which
\* wraps around on overflow
fetch_add(counter) == [id |-> counter, counter |-> (counter + 1) % (MaxId + 1)]

IdsInit ==
  ids = [TORRENT_ID |-> 0, issued |-> <<>>, sent |-> <<>>,
         threads |-> [t \in 1..MaxIdThreads |-> [pc |-> "idle", id |-> 0]]]

InitIds == IoIdle /\ SysIdle /\ DiskIdle /\ AuxIdle /\ BlIdle /\ AvgIdle /\ WireIdle /\ MiIdle /\ IdsInit

\* let id = TorrentId::new(), in create_torrent on thread t
TorrentId_new(t) ==
  /\ ids.threads[t].pc = "idle"
  /\ Len(ids.issued) < MaxNewCalls
  /\ \E r \in {fetch_add(ids.TORRENT_ID)} :
       ids' = [ids EXCEPT !.TORRENT_ID = r.counter, !.issued = Append(ids.issued, r.id),
                          !.threads[t] = [pc |-> "created", id |-> r.id]]
  /\ UNCHANGED <<ioVars, diskVars, auxVars, bl, avg, wire, mi, sysVars>>

\* self.tx.send(Command::CreateTorrent { id, .. }) and Ok(id), on thread t
CreateTorrentSend(t) ==
  /\ ids.threads[t].pc = "created"
  /\ ids' = [ids EXCEPT !.sent = Append(ids.sent, ids.threads[t].id),
                        !.threads[t] = [pc |-> "idle", id |-> 0]]
  /\ UNCHANGED <<ioVars, diskVars, auxVars, bl, avg, wire, mi, sysVars>>

NextIds == \E t \in 1..MaxIdThreads : TorrentId_new(t) \/ CreateTorrentSend(t)

SpecIds == InitIds /\ [][NextIds]_vars

\* C30: every call of TorrentId::new, racing calls included, takes an id
\* greater than every id taken before it, so that no id is handed out twice.
IdsNeverReused ==
  ids # <<>> =>
    \A i, j \in 1..Len(ids.issued) : i < j => ids.issued[i] < ids.issued[j]

(***************************************************************************)
(* The torrent coordinator (torrent/mod.rs holds its commands; the task    *)
(* and the piece picker follow spec 4.5), checked under SpecCoordinator.   *)
(* co is [queue, pieces, haves, alerts, pc, last, before]: the commands    *)
(* waiting on the torrent's channel, the picker's state of every piece     *)
(* ("free" to download, "downloading" or "owned"), the "have"              *)
(* announcements broadcast to the peer sessions, the alerts surfaced, the  *)
(* task's position, the last command handled and the pieces before it.     *)
(***************************************************************************)
\* the pieces of the coordinator's torrent and the commands on its channel
MaxCoPieces == 2
MaxCoCmds == 3

\* torrent::Command, with the fields of PieceCompletion
CoCommand(type, ok, index, is_valid) == [type |-> type, ok |-> ok, index |-> index, is_valid |-> is_valid]

CoCommands ==
  {CoCommand("PieceCompletion", TRUE, i, v) : i \in 0..(MaxCoPieces - 1), v \in BOOLEAN}
  \cup {CoCommand("PieceCompletion", FALSE, 0, FALSE)}
  \cup {CoCommand(t, TRUE, 0, FALSE) : t \in {"ReadError", "PeerConnected", "PeerState", "Shutdown"}}

\* a coordinator that takes every PieceCompletion(Ok) for a valid piece
coordinator_handle_trusting(c, command) ==
  IF command.type = "PieceCompletion" /\ command.ok
  THEN [c EXCEPT !.pieces[command.index] = "owned", !.haves = Append(c.haves, command.index)]
  ELSE IF command.type = "PieceCompletion" THEN [c EXCEPT !.alerts = c.alerts + 1]
  ELSE IF command.type = "Shutdown" THEN [c EXCEPT !.pc = "exited"]
  ELSE c

\* the coordinator's handling of one command
coordinator_handle(c, command) ==
  IF command.type = "PieceCompletion" /\ command.ok
  THEN IF command.is_valid
       THEN [c EXCEPT !.pieces[command.index] = "owned",
                      !.haves = Append(c.haves, command.index)]
       ELSE [c EXCEPT !.pieces[command.index] = "free"]
  ELSE IF command.type = "PieceCompletion" THEN [c EXCEPT !.alerts = c.alerts + 1]
  ELSE IF command.type = "Shutdown" THEN [c EXCEPT !.pc = "exited"]
  ELSE c

CoInit ==
  co \in {[queue |-> q, pieces |-> p, haves |-> <<>>, alerts |-> 0, pc |-> "running",
           last |-> CoCommand("none", TRUE, 0, FALSE), before |-> p] :
            q \in UNION {[1..k -> CoCommands] : k \in 0..MaxCoCmds},
            p \in [0..(MaxCoPieces - 1) -> {"free", "downloading"}]}

InitCoordinator == IoIdle /\ DiskIdle /\ AuxIdle /\ UnitIdle /\ EqIdle /\ EngIdle /\ CoInit

\* the coordinator takes the next command off its channel
Handle ==
  /\ co.pc = "running"
  /\ co.queue # <<>>
  /\ \E c \in {coordinator_handle(co, Head(co.queue))} :
       co' = [c EXCEPT !.queue = Tail(co.queue), !.last = Head(co.queue),
                       !.before = co.pieces]
  /\ UNCHANGED <<ioVars, diskVars, auxVars, unitVars, eq, eng>>

NextCoordinator == Handle

SpecCoordinator == InitCoordinator /\ [][NextCoordinator]_vars

\* C31: the coordinator marks piece i as owned, and announces "have" for it,
\* only when it handles PieceCompletion(Ok{index: i, is_valid: true}); on a
\* PieceCompletion with is_valid false the piece is free for download again
\* and no piece is marked owned or announced.
OwnedOnlyWhenValid ==
  [][LET command == Head(co.queue)
         newly_owned == {i \in DOMAIN co.pieces :
                           co'.pieces[i] = "owned" /\ co.pieces[i] # "owned"}
     IN /\ \A i \in newly_owned : command = CoCommand("PieceCompletion", TRUE, i, TRUE)
        /\ co'.haves # co.haves =>
             /\ command = CoCommand("PieceCompletion", TRUE, command.index, TRUE)
             /\ co'.haves = Append(co.haves, command.index)
        /\ (command.type = "PieceCompletion" /\ command.ok /\ ~command.is_valid) =>
             /\ co'.pieces[command.index] = "free"
             /\ newly_owned = {}
             /\ co'.haves = co.haves]_vars

\* a piece was put back after an invalid completion and owned after a valid one
OwnedOnlyWhenValidWitness ==
  /\ co # <<>>
  /\ co.last = CoCommand("PieceCompletion", TRUE, 1, TRUE)
  /\ co.before[1] = "free"
  /\ co.pieces[1] = "owned" /\ co.haves = <<1>>
  /\ co.pieces[0] = "free"

\* C32: once the worker handled the WriteBlock that completes a piece, the
\* torrent's write_buf holds no assembler for the piece's index, whether the
\* piece was valid and written, invalid, or its write failed; a block for an
\* index without an assembler starts a new assembler holding that block only.
AssemblerDroppedOnCompletion ==
  [][(cmd'.type = "WriteBlock" /\ cmd'.id \in DOMAIN torrents) =>
       LET b == cmd'.block_info
           t == torrents[cmd'.id]
           write_buf == torrents'[cmd'.id].write_buf
       IN /\ ReachesBlockCount(t, b, cmd'.data) => b.piece_index \notin DOMAIN write_buf
          /\ (ValidBlock(t.info, b) /\ b.piece_index \notin DOMAIN t.write_buf
                /\ ~ReachesBlockCount(t, b, cmd'.data)) =>
               /\ b.piece_index \in DOMAIN write_buf
               /\ DOMAIN write_buf[b.piece_index].blocks = {b.offset}
               /\ write_buf[b.piece_index].blocks[b.offset] = cmd'.data]_vars

\* a block of a piece that was completed and written before is alone in a
\* new assembler
AssemblerDroppedOnCompletionWitness ==
  /\ cmd.type = "WriteBlock" /\ cmd.id \in DOMAIN torrents
  /\ <<cmd.id, cmd.block_info.piece_index>> \in valid_pieces
  /\ sent = <<>>
  /\ cmd.block_info.piece_index \in DOMAIN torrents[cmd.id].write_buf
  /\ DOMAIN torrents[cmd.id].write_buf[cmd.block_info.piece_index].blocks
       = {cmd.block_info.offset}

RECURSIVE write_asserts(_, _, _, _, _, _, _)
\* the debug assertions of Piece::write along its loop over the files
\* i, ..., end-1, and the ones after the loop: TRUE iff none of them fails
write_asserts(len, infos, i, end, bufs, torrent_write_offset, total_write_count) ==
  LET written(file_slice, iovecs) ==
        /\ ~IsPanic(iovecs)
        /\ write_asserts(len, infos, i + 1, end, into_tail(iovecs),
                         torrent_write_offset + file_slice.len,
                         total_write_count + file_slice.len)
      sliced(file_slice) ==
        /\ ~IsPanic(file_slice)
        /\ file_slice.len > 0
        /\ bufs # <<>>
        /\ bufs[1] # <<>>
        /\ written(file_slice, bounded(bufs, file_slice.len))
  IN IF i >= end THEN bufs = <<>> /\ total_write_count = len
     ELSE /\ len > total_write_count
          /\ sliced(get_slice(At(infos, i), torrent_write_offset, len - total_write_count))

\* the assertions of Piece::write for a piece at piece_offset
Piece_write_asserts(piece, piece_offset, infos) ==
  /\ piece.file_range.start < piece.file_range.end
  /\ write_asserts(piece.len, infos, piece.file_range.start, piece.file_range.end,
                   Values(piece.blocks), piece_offset, 0)

\* C33: the assertions inside Piece::write hold whenever the worker writes a
\* complete piece whose file_range is the files that intersect the piece: in
\* every iteration the file slice is not empty and the remaining buffer list
\* starts with a non-empty buffer, and after the last file no buffer remains
\* and the bytes counted as written are the piece's length.
PieceWriteAssertsHold ==
  [][(cmd'.type = "WriteBlock" /\ cmd'.id \in DOMAIN torrents) =>
       LET t == torrents[cmd'.id]
           b == cmd'.block_info
           piece == Assembled(t, b, cmd'.data)
       IN (ReachesBlockCount(t, b, cmd'.data) /\ match_hash(piece)) =>
            /\ piece.file_range = files_intersecting_piece(t.info, b.piece_index)
            /\ Piece_write_asserts(piece, torrent_piece_offset(t.info, b.piece_index),
                                   t.info.files)]_vars

\* a piece that lies in three files was written
PieceWriteAssertsHoldWitness ==
  /\ cmd.type = "WriteBlock" /\ cmd.id \in DOMAIN torrents
  /\ sent = <<PieceCompletion(cmd.id, cmd.block_info.piece_index, TRUE)>>
  /\ Cardinality({io_log[c].file : c \in {k \in 1..Len(io_log) :
                                            io_log[k].call = "seek_write"}}) = 3

(***************************************************************************)
(* The IoSlice-based IoVecs (iovecs/window.rs) beside the IoVec-based one  *)
(* (iovecs/utils.rs), checked under SpecIoEquiv.  eq is [bufs, max_len,    *)
(* pc, utils, window, adv, tail]: the buffer list and the bound both are   *)
(* built from, the position of the caller, the two IoVecs values, the      *)
(* bytes advanced so far and what the two into_tail calls returned.        *)
(***************************************************************************)
\* window.rs bounded, unbounded, the two splits, as_slice and advance are the
\* code of utils.rs with IoSlice in place of IoVec
window_bounded(bufs, max_len) == bounded(bufs, max_len)

window_as_slice(self) == as_slice(self)

window_advance(self, n) == advance(self, n)

\* window.rs into_tail: the buffers from the split position on, the buffer at
\* the split position restored when it was split
window_into_tail(self) ==
  IF self.split.some
  THEN IF self.split.second_half.has
       THEN From([self.bufs EXCEPT ![self.split.pos + 1] = self.split.second_half.buf],
                 self.split.pos)
       ELSE From(self.bufs, self.split.pos)
  ELSE From(self.bufs, Len(self.bufs))

EqInit ==
  eq \in {[bufs |-> bufs, max_len |-> max_len, pc |-> "new", utils |-> Null,
           window |-> Null, adv |-> 0, tail |-> [utils |-> <<>>, window |-> <<>>]] :
            bufs \in BufLists, max_len \in 1..MaxBufLen * MaxBufs + 1}

InitIoEquiv == IoIdle /\ DiskIdle /\ AuxIdle /\ UnitIdle /\ CoIdle /\ EngIdle /\ EqInit

\* IoVecs::bounded(&mut bufs, max_len), with each implementation
EqBounded ==
  /\ eq.pc = "new"
  /\ eq' = [eq EXCEPT !.pc = "live", !.utils = bounded(eq.bufs, eq.max_len),
                      !.window = window_bounded(eq.bufs, eq.max_len)]
  /\ UNCHANGED <<ioVars, diskVars, auxVars, unitVars, co, eng>>

\* iovecs.advance(n) on both, by no more than the first half still holds
EqAdvance ==
  /\ eq.pc = "live"
  /\ eq.adv < MaxAdvance
  /\ \E n \in 1..Min(SumLen(as_slice(eq.utils)), MaxAdvance - eq.adv) :
       eq' = [eq EXCEPT !.utils = advance(eq.utils, n),
                        !.window = window_advance(eq.window, n), !.adv = eq.adv + n]
  /\ UNCHANGED <<ioVars, diskVars, auxVars, unitVars, co, eng>>

\* iovecs.into_tail() on both
EqIntoTail ==
  /\ eq.pc = "live"
  /\ eq' = [eq EXCEPT !.pc = "tail",
                      !.tail = [utils |-> into_tail(eq.utils),
                                window |-> window_into_tail(eq.window)]]
  /\ UNCHANGED <<ioVars, diskVars, auxVars, unitVars, co, eng>>

NextIoEquiv == EqBounded \/ EqAdvance \/ EqIntoTail

SpecIoEquiv == InitIoEquiv /\ [][NextIoEquiv]_vars

\* C34: the IoVecs of utils.rs and the IoVecs of window.rs expose the same
\* first-half bytes after bounded and after every valid advance, and their
\* into_tail returns the same bytes, also when the split is on a buffer
\* boundary and nothing was advanced.
IoVecsImplementationsAgree ==
  eq # <<>> =>
    /\ eq.pc = "live" =>
         Flatten(as_slice(eq.utils)) = Flatten(window_as_slice(eq.window))
    /\ eq.pc = "tail" => Flatten(eq.tail.utils) = Flatten(eq.tail.window)

(***************************************************************************)
(* The piece writes and reads of SpecLocks on fairly scheduled threads:    *)
(* a pool thread that can take its next step is not passed over forever,   *)
(* and RwLock hands a free lock to a waiting thread.                       *)
(***************************************************************************)
\* the steps of the thread t
LkStep(t) == Lock(t, "write") \/ Unlock(t, "write") \/ Lock(t, "read") \/ Unlock(t, "read")

FairLocks == SpecLocks /\ \A t \in 1..MaxThreads : WF_vars(LkStep(t))

\* the thread t has run its loop over its file range to the end
LkFinished(t) == lk[t].pos = lk[t].end /\ lk[t].held = {}

\* C35: a piece write or read holds the guard of at most one file at a time,
\* and that is the file it is at, walking its range in ascending index; piece
\* writes and reads over overlapping ranges therefore never block each other
\* for good and each of them finishes.
OneFileLockAtATime ==
  /\ [](lk # <<>> =>
          \A t \in 1..Len(lk) :
            /\ Cardinality(lk[t].held) <= 1
            /\ lk[t].held \subseteq {lk[t].pos}
            /\ lk[t].start <= lk[t].pos /\ lk[t].pos <= lk[t].end)
  /\ [][lk # <<>> => \A t \in 1..Len(lk) : lk'[t].pos >= lk[t].pos]_vars
  /\ <>[](lk # <<>> /\ \A t \in 1..Len(lk) : LkFinished(t))

\* two piece writes over the same two files, one inside the first file and
\* the other, past it, inside the second
OneFileLockAtATimeWitness ==
  /\ lk # <<>>
  /\ \E t, u \in 1..Len(lk) :
       /\ lk[t].kind = "write" /\ lk[u].kind = "write"
       /\ lk[t].start = 0 /\ lk[u].start = 0 /\ lk[t].end = 2 /\ lk[u].end = 2
       /\ lk[t].held = {0} /\ lk[u].held = {1}

(***************************************************************************)
(* The engine task, its torrent tasks and the disk worker, checked under   *)
(* SpecEngine.  eng is [TORRENT_ID, created, handle, cmd_rx, pc, cur,      *)
(* torrents, tasks, disk_rx, disk]: the id counter and the ids minted,     *)
(* whether the EngineHandle is still there, the engine's command channel,  *)
(* the position of Engine::run, the id create_torrent is at, the engine's  *)
(* map (id to task number, 0 for no entry), the torrent tasks in spawn     *)
(* order as [id, state, shutdowns, joined], the disk command channel and   *)
(* the disk worker as [state, known], known the ids whose NewTorrent it    *)
(* has processed.                                                          *)
(***************************************************************************)
\* the commands waiting on a channel when one more is sent by the handle or by
\* a torrent task
MaxEngQueue == 2

EngCommand(type, id) == [type |-> type, id |-> id]

\* Engine::create_torrent with the task spawned before NewTorrent is sent
Engine_create_torrent_spawning_first(e, id, step) ==
  IF step = 1
  THEN [e EXCEPT !.tasks = Append(e.tasks, [id |-> id, state |-> "running", shutdowns |-> 0,
                                            joined |-> FALSE]),
                 !.torrents[id] = Len(e.tasks) + 1]
  ELSE [e EXCEPT !.disk_rx = Append(e.disk_rx, EngCommand("NewTorrent", id))]

\* Engine::create_torrent, in its two steps: Torrent::new and
\* self.disk_tx.send(disk::Command::NewTorrent {..}), then task::spawn of
\* torrent.start and self.torrents.insert(id, ..), which replaces the entry an
\* equal id had
Engine_create_torrent(e, id, step) ==
  IF step = 1
  THEN [e EXCEPT !.tasks = Append(e.tasks, [id |-> id, state |-> "created", shutdowns |-> 0,
                                            joined |-> FALSE]),
                 !.disk_rx = Append(e.disk_rx, EngCommand("NewTorrent", id))]
  ELSE [e EXCEPT !.tasks[Len(e.tasks)].state = "running",
                 !.torrents[id] = Len(e.tasks)]

\* the tasks the engine's map has an entry for
Entries(e) == {e.torrents[id] : id \in 0..MaxId} \ {0}

\* Engine::shutdown, first loop: torrent.tx.send(torrent::Command::Shutdown).ok()
\* for every entry of the map
Engine_shutdown_send(e) ==
  [e EXCEPT !.tasks = [k \in 1..Len(e.tasks) |->
                         IF k \in Entries(e)
                         THEN [e.tasks[k] EXCEPT !.shutdowns = e.tasks[k].shutdowns + 1]
                         ELSE e.tasks[k]]]

EngInit ==
  eng = [TORRENT_ID |-> 0, handle |-> TRUE, cmd_rx |-> <<>>, pc |-> "recv", cur |-> 0,
         torrents |-> [id \in 0..MaxId |-> 0], tasks |-> <<>>, disk_rx |-> <<>>,
         disk |-> [state |-> "running", known |-> {}], created |-> 0]

InitEngine == IoIdle /\ DiskIdle /\ AuxIdle /\ UnitIdle /\ CoIdle /\ EqIdle /\ EngInit

\* EngineHandle::create_torrent: TorrentId::new() and the send of CreateTorrent
HandleCreateTorrent ==
  /\ eng.handle
  /\ eng.created < MaxNewCalls
  /\ Len(eng.cmd_rx) < MaxEngQueue
  /\ \E r \in {fetch_add(eng.TORRENT_ID)} :
       eng' = [eng EXCEPT !.TORRENT_ID = r.counter, !.created = eng.created + 1,
                          !.cmd_rx = Append(eng.cmd_rx, EngCommand("CreateTorrent", r.id))]
  /\ UNCHANGED <<ioVars, diskVars, auxVars, unitVars, co, eq>>

\* EngineHandle::shutdown(self): the send of Shutdown; the handle is consumed
HandleShutdown ==
  /\ eng.handle
  /\ eng' = [eng EXCEPT !.handle = FALSE,
                        !.cmd_rx = Append(eng.cmd_rx, EngCommand("Shutdown", 0))]
  /\ UNCHANGED <<ioVars, diskVars, auxVars, unitVars, co, eq>>

\* Engine::run receives CreateTorrent: create_torrent up to the send of
\* NewTorrent
CreateTorrentNew ==
  /\ eng.pc = "recv"
  /\ eng.cmd_rx # <<>>
  /\ Head(eng.cmd_rx).type = "CreateTorrent"
  /\ \E id \in {Head(eng.cmd_rx).id} :
       eng' = [Engine_create_torrent(eng, id, 1) EXCEPT
                 !.cmd_rx = Tail(eng.cmd_rx), !.pc = "create", !.cur = id]
  /\ UNCHANGED <<ioVars, diskVars, auxVars, unitVars, co, eq>>

\* create_torrent from task::spawn to its end
CreateTorrentSpawn ==
  /\ eng.pc = "create"
  /\ eng' = [Engine_create_torrent(eng, eng.cur, 2) EXCEPT !.pc = "recv", !.cur = 0]
  /\ UNCHANGED <<ioVars, diskVars, auxVars, unitVars, co, eq>>

\* Engine::run receives Shutdown: the first loop of Engine::shutdown
ShutdownTorrents ==
  /\ eng.pc = "recv"
  /\ eng.cmd_rx # <<>>
  /\ Head(eng.cmd_rx).type = "Shutdown"
  /\ eng' = [Engine_shutdown_send(eng) EXCEPT !.cmd_rx = Tail(eng.cmd_rx), !.pc = "join"]
  /\ UNCHANGED <<ioVars, diskVars, auxVars, unitVars, co, eq>>

\* the second loop of Engine::shutdown: the join handle of an entry completes
JoinTorrent ==
  /\ eng.pc = "join"
  /\ \E k \in Entries(eng) :
       /\ ~eng.tasks[k].joined
       /\ eng.tasks[k].state = "exited"
       /\ eng' = [eng EXCEPT !.tasks[k].joined = TRUE]
  /\ UNCHANGED <<ioVars, diskVars, auxVars, unitVars, co, eq>>

\* self.disk_tx.send(disk::Command::Shutdown), after the second loop
ShutdownDisk ==
  /\ eng.pc = "join"
  /\ \A k \in Entries(eng) : eng.tasks[k].joined
  /\ eng' = [eng EXCEPT !.pc = "disk",
                        !.disk_rx = Append(eng.disk_rx, EngCommand("Shutdown", 0))]
  /\ UNCHANGED <<ioVars, diskVars, auxVars, unitVars, co, eq>>

\* the disk join handle completes; Engine::run breaks its loop
JoinDisk ==
  /\ eng.pc = "disk"
  /\ eng.disk.state = "exited"
  /\ eng' = [eng EXCEPT !.pc = "done"]
  /\ UNCHANGED <<ioVars, diskVars, auxVars, unitVars, co, eq>>

\* a running torrent task sends WriteBlock or ReadBlock of its id to the disk
\* worker
TorrentSendsBlock ==
  /\ Len(eng.disk_rx) < MaxEngQueue
  /\ eng.disk.state = "running"
  /\ \E k \in 1..Len(eng.tasks), type \in {"WriteBlock", "ReadBlock"} :
       /\ eng.tasks[k].state = "running"
       /\ eng' = [eng EXCEPT !.disk_rx = Append(eng.disk_rx, EngCommand(type, eng.tasks[k].id))]
  /\ UNCHANGED <<ioVars, diskVars, auxVars, unitVars, co, eq>>

\* a running torrent task receives Shutdown and exits
TorrentShutdown ==
  /\ \E k \in 1..Len(eng.tasks) :
       /\ eng.tasks[k].state = "running"
       /\ eng.tasks[k].shutdowns > 0
       /\ eng' = [eng EXCEPT !.tasks[k].state = "exited"]
  /\ UNCHANGED <<ioVars, diskVars, auxVars, unitVars, co, eq>>

\* Disk::start receives a command: NewTorrent makes the id known, a block
\* command looks its id up, Shutdown ends the loop
DiskReceives ==
  /\ eng.disk.state = "running"
  /\ eng.disk_rx # <<>>
  /\ \E c \in {Head(eng.disk_rx)} :
       eng' = [eng EXCEPT !.disk_rx = Tail(eng.disk_rx),
                          !.disk.known = IF c.type = "NewTorrent" THEN @ \cup {c.id} ELSE @,
                          !.disk.state = IF c.type = "Shutdown" THEN "exited" ELSE @]
  /\ UNCHANGED <<ioVars, diskVars, auxVars, unitVars, co, eq>>

NextEngine ==
  \/ HandleCreateTorrent
  \/ HandleShutdown
  \/ CreateTorrentNew
  \/ CreateTorrentSpawn
  \/ ShutdownTorrents
  \/ JoinTorrent
  \/ ShutdownDisk
  \/ JoinDisk
  \/ TorrentSendsBlock
  \/ TorrentShutdown
  \/ DiskReceives

SpecEngine == InitEngine /\ [][NextEngine]_vars

\* the positions of the commands of the given type and id on the disk channel
EngPositions(type, id) ==
  {i \in 1..Len(eng.disk_rx) : eng.disk_rx[i].type = type /\ eng.disk_rx[i].id = id}

DiskShutdownAfterTorrents ==
  [][(eng # <<>> /\ eng'.pc = "disk" /\ eng.pc # "disk")
       => \A k \in 1..Len(eng.tasks) :
            eng.tasks[k].shutdowns > 0 /\ eng.tasks[k].state = "exited"]_vars

\* C37: a ReadBlock the worker receives after the WriteBlock that completed a
\* valid piece finds the data of that piece: it is answered with the bytes
\* written and never with MissingData, whether or not the sender has seen the
\* PieceCompletion.
ReadAfterCompletingWrite ==
  [][(/\ cmd'.type = "ReadBlock"
      /\ <<cmd'.id, cmd'.block_info.piece_index>> \in valid_pieces
      /\ cmd'.block_info.offset
           < piece_len_of(meta[cmd'.id], cmd'.block_info.piece_index)) =>
       /\ \A i \in 1..Len(sent') : sent'[i].type # "ReadError"
       /\ \E i \in 1..Len(sent') :
            /\ sent'[i].type = "Block"
            /\ sent'[i].data =
                 SubSeq(PieceBytes(meta[cmd'.id], cmd'.block_info.piece_index),
                        cmd'.block_info.offset + 1,
                        cmd'.block_info.offset + cmd'.block_info.len)]_vars

\* the TorrentAllocation messages among the given messages
Allocations(msgs) == SelectSeq(msgs, LAMBDA m : m.type = "TorrentAllocation")

\* C38: for every NewTorrent it processes the worker sends exactly one
\* TorrentAllocation, for the id of the command; the torrent map gains an
\* entry for the id exactly when that message carries Ok, and nothing else in
\* the map changes: an id that is in the map keeps the entry it has.
OneAllocationPerNewTorrent ==
  [][cmd'.type = "NewTorrent" =>
       /\ Len(Allocations(sent')) = 1
       /\ Allocations(sent')[1].id = cmd'.id
       /\ (cmd'.id \in DOMAIN torrents' /\ cmd'.id \notin DOMAIN torrents)
            <=> Allocations(sent')[1].result = "Ok"
       /\ DOMAIN torrents' \subseteq DOMAIN torrents \cup {cmd'.id}
       /\ \A id \in DOMAIN torrents : id \in DOMAIN torrents' /\ torrents'[id] = torrents[id]]_vars

\* a NewTorrent answered AlreadyExists for a torrent that holds the blocks of
\* an unfinished piece
OneAllocationPerNewTorrentWitness ==
  /\ cmd.type = "NewTorrent"
  /\ Allocations(sent) = <<TorrentAllocation(cmd.id, "AlreadyExists")>>
  /\ cmd.id \in DOMAIN torrents
  /\ DOMAIN torrents[cmd.id].write_buf # {}

\* C40: SlidingAvg::update never panics and never divides by zero, for every
\* inverted_gain SlidingAvg::new accepts, 0 included, and every sequence of
\* samples.
UpdateNeverPanics == avg # <<>> => ~avg.panicked

=============================================================================
